---- MODULE Spec2Model ----
(***************************************************************************)
(* express-simple-proxy: the proxy middleware of src/proxy.ts              *)
(* (createProxyController, axiosProxyRequest, defaultErrorHandler) and     *)
(* asyncWrapper of src/utils.ts, as a state machine over inbound requests. *)
(*                                                                         *)
(* JavaScript objects are functions from field names to values, so that a  *)
(* field can be absent ("code" \notin DOMAIN e).  Objects that the code    *)
(* passes by reference (the header generator's result, the error handed to *)
(* the hook and the handlers) live in heaps indexed by object identity.    *)
(* One action is one run-to-completion segment of the async middleware:    *)
(* the code between two awaits.  The express Response is the reply writer  *)
(* the engine calls: it records every status, header and body it is given. *)
(* A string that urlJoin, replaceUrlTemplate or buildQueryString works on   *)
(* is the sequence of its characters.                                      *)
(*                                                                         *)
(* Spec             one request, every configuration, outcome and callback *)
(* SpecConcurrent   interleaved requests through one relaying controller   *)
(* SpecOutbound     one request, over methods, bodies, paths and templates *)
(* SpecErrorHandler defaultErrorHandler called on its own                  *)
(* SpecCreate       createProxyController called with any argument         *)
(* SpecUpload       one multipart request, over body fields and uploads    *)
(* SpecUtils        urlJoin, replaceUrlTemplate, buildQueryString called   *)
(*                  on their own                                           *)
(* SpecWrapper      Spec, and asyncWrapper called on its own               *)
(***************************************************************************)
EXTENDS Integers, Sequences, FiniteSets, TLC

VARIABLES
  config,          \* the ProxyConfig captured by createProxyController
  controller,      \* what createProxyController(config) produced
  pc,              \* pc[r]: where the middleware invocation for r is suspended
  req,             \* req[r]: the inbound request, the route's handler argument
                   \* and NODE_ENV when it is not the default
  hdrObjs,         \* heap of header objects: identity -> header map
  generated,       \* identity -> header map as config.headers last returned it
  payload,         \* payload[r]: the ProxyRequestPayload built for r
  wire,            \* wire[r]: the outbound calls handed to axios, in order
  transport,       \* transport[r]: what axios settled with
  errObjs,         \* errObjs[r]: heap of error objects of r: identity -> error
  processedError,  \* processedError[r]: identity of the error in `processedError`
  res,             \* res[r]: the express Response of r
  nextArgs,        \* nextArgs[r]: the arguments next() was called with
  log,             \* log[r]: the callbacks invoked for r, in order
  utilCall         \* a direct call of an exported function of utils.ts: the
                   \* function, its arguments and, once it returned, its result

vars == << config, controller, pc, req, hdrObjs, generated, payload, wire, transport,
           errObjs, processedError, res, nextArgs, log, utilCall >>

---------------------------------------------------------------------------
(* Bounds *)

\* number of inbound requests in flight at once through one controller
MaxRequests == 2

Requests == 1..MaxRequests

\* number of parts handed to urlJoin in one call
MaxParts == 3

---------------------------------------------------------------------------
(* JavaScript objects *)

Has(o, f) == f \in DOMAIN o

EmptyObject == << >>

\* Object.assign(target, source) / { ...target, ...source }
Assign(target, source) ==
  [k \in (DOMAIN target) \cup (DOMAIN source) |->
     IF k \in DOMAIN source THEN source[k] ELSE target[k]]

\* obj[key] = value
SetField(obj, key, value) == Assign(obj, key :> value)

\* heap[id] = obj, allocating id when it is new
Store(heap, id, obj) == Assign(heap, id :> obj)

\* JavaScript values
JsUndefined == [type |-> "undefined"]
JsNull == [type |-> "null"]
JsObject(fields) == [type |-> "object", fields |-> fields]
JsBool(b) == [type |-> "boolean", bool |-> b]
JsNum(n) == [type |-> "number", num |-> n]
JsStr(s) == [type |-> "string", str |-> s]
JsArray(items) == [type |-> "array", items |-> items]

\* an object whose properties are kept in Object.keys order: the sequence of
\* its <<key, value>> pairs
JsEntries(entries) == [type |-> "object", entries |-> entries]

\* the <<key, value>> pairs of an object, one per key of Object.keys(obj); an
\* object given by its fields alone has string values
ObjectEntries(obj) ==
  LET RECURSIVE enumerate(_)
      enumerate(keys) ==
        IF keys = {} THEN << >>
        ELSE LET k == CHOOSE x \in keys : TRUE
             IN << <<k, JsStr(obj.fields[k])>> >> \o enumerate(keys \ {k})
  IN IF Has(obj, "entries") THEN obj.entries ELSE enumerate(DOMAIN obj.fields)

\* String(value), also what a template literal `${value}` gives: an array is
\* its elements joined by ',', with null and undefined elements left empty
JsToString(value) ==
  LET RECURSIVE toString(_)
      toString(v) ==
        CASE v.type = "string"    -> v.str
          [] v.type = "number"    -> ToString(v.num)
          [] v.type = "boolean"   -> IF v.bool THEN "true" ELSE "false"
          [] v.type = "null"      -> "null"
          [] v.type = "undefined" -> "undefined"
          [] v.type = "array"     ->
               LET RECURSIVE join(_)
                   join(i) ==
                     IF i > Len(v.items) THEN ""
                     ELSE (IF v.items[i].type \in {"null", "undefined"} THEN ""
                           ELSE toString(v.items[i]))
                          \o (IF i < Len(v.items) THEN "," ELSE "") \o join(i + 1)
               IN join(1)
          [] OTHER -> "[object Object]"
  IN toString(value)

\* JavaScript truthiness of a value: what `v ? a : b` and `v || d` test
Truthy(v) ==
  CASE v.type \in {"null", "undefined"} -> FALSE
    [] v.type = "boolean" -> v.bool
    [] v.type = "number"  -> v.num # 0
    [] v.type = "string"  -> v.str # ""
    [] OTHER -> TRUE

---------------------------------------------------------------------------
(* Program constants (src/types.ts) *)

DEFAULT_TIMEOUT == 30000
MAX_REQUEST_SIZE == 104857600
DEFAULT_RETRY_COUNT == 2

---------------------------------------------------------------------------
(* The caller-supplied configuration and the inbound requests *)

\* what config.headers does when called: return a new object per request,
\* return one module-level object, refill one module-level object and return
\* it, throw, or return a new object that names a content type under the
\* header name 'Content-Type' or 'content-type'
HeaderGeneratorKinds ==
  {"fresh", "shared", "reuse", "throws", "Content-Type", "content-type"}

ResponseHeadersKinds == {"none", "fn", "throws"}

\* const { errorHandler = defaultErrorHandler, errorHandlerHook } = config
ErrorHandlerOf(cfg) == IF Has(cfg, "errorHandler") THEN "custom" ELSE "default"
ErrorHandlerHookOf(cfg) == Has(cfg, "errorHandlerHook")

\* 'http://h', character by character
ExampleBaseURL == <<"h", "t", "t", "p", ":", "/", "/", "h">>

\* ProxyConfig values that pass validateConfig
ValidConfigs(headerKinds, responseHeaderKinds, timeouts) ==
  { Assign(Assign(Assign([baseURL |-> ExampleBaseURL, headers |-> h,
                          responseHeaders |-> rh], t), eh), hook) :
      h \in headerKinds, rh \in responseHeaderKinds, t \in timeouts,
      eh \in {EmptyObject, [errorHandler |-> "fn"]},
      hook \in {EmptyObject, [errorHandlerHook |-> "fn"]} }

Methods == {"GET", "POST", "DELETE"}

\* the second argument of proxyController(proxyPath, handler)
HandlerArgs == {"none", "fn", "true"}

NoRequest == [method |-> "-"]

\* no function of utils.ts is called directly
NoCall == [fn |-> "-"]

\* identities of the header objects
SharedId == "shared"
GenId(r) == "gen-" \o ToString(r)
CloneId(r) == "clone-" \o ToString(r)

\* header content that belongs to request r alone
OwnHeaders(r) == "Authorization" :> ("Bearer token-" \o ToString(r))

\* content of the module-level header object before any request
SharedHeaders == "X-Api-Key" :> "key"

\* config.headers(req): the object it returns and the heap after the call
HeaderGenerator(kind, heap, r) ==
  CASE kind = "fresh"  -> [ref |-> GenId(r), heap |-> Store(heap, GenId(r), OwnHeaders(r))]
    [] kind = "shared" -> [ref |-> SharedId, heap |-> heap]
    [] kind = "reuse"  -> [ref |-> SharedId,
                           heap |-> Store(heap, SharedId, Assign(heap[SharedId], OwnHeaders(r)))]
    [] kind \in {"Content-Type", "content-type"} ->
         [ref |-> GenId(r),
          heap |-> Store(heap, GenId(r), Assign(OwnHeaders(r), kind :> "text/xml"))]

---------------------------------------------------------------------------
(* utils.ts: urlJoin, replaceUrlTemplate, buildQueryString.  A string these
   functions work on is the sequence of its characters. *)

\* part.replace(/^\/+/, '')
StripLeadingSlashes(str) ==
  LET RECURSIVE strip(_)
      strip(t) == IF t # << >> /\ Head(t) = "/" THEN strip(Tail(t)) ELSE t
  IN strip(str)

\* part.replace(/\/+$/, '')
StripTrailingSlashes(str) ==
  LET RECURSIVE strip(_)
      strip(t) == IF t # << >> /\ t[Len(t)] = "/"
                  THEN strip(SubSeq(t, 1, Len(t) - 1)) ELSE t
  IN strip(str)

\* parts.join(separator)
Join(parts, separator) ==
  LET RECURSIVE join(_)
      join(i) == IF i > Len(parts) THEN << >>
                 ELSE IF i = Len(parts) THEN parts[i]
                 ELSE parts[i] \o separator \o join(i + 1)
  IN join(1)

\* the .map of urlJoin: the first part loses its trailing slashes, every other
\* part its leading and trailing ones
TrimmedParts(parts) ==
  [i \in 1..Len(parts) |->
     IF i = 1 THEN StripTrailingSlashes(parts[i])
     ELSE StripTrailingSlashes(StripLeadingSlashes(parts[i]))]

\* urlJoin with a fault: a trailing query fragment is joined like any other part
urlJoinQueryJoined(parts) ==
  LET filteredParts == SelectSeq(parts, LAMBDA part : part # << >>)
  IN IF Len(filteredParts) = 0 THEN << >>
     ELSE Join(TrimmedParts(filteredParts), <<"/">>)

urlJoin(parts) ==
  LET filteredParts == SelectSeq(parts, LAMBDA part : part # << >>)
      n == Len(filteredParts)
  IN IF n = 0 THEN << >>
     ELSE IF Head(filteredParts[n]) = "?"
     THEN IF n = 1 THEN filteredParts[n]
          ELSE Join(TrimmedParts(SubSeq(filteredParts, 1, n - 1)), <<"/">>)
                 \o filteredParts[n]
     ELSE Join(TrimmedParts(filteredParts), <<"/">>)

\* str.startsWith(prefix)
StartsWith(str, prefix) ==
  Len(prefix) <= Len(str) /\ SubSeq(str, 1, Len(prefix)) = prefix

\* the replacement patterns of String.prototype.replace: $$ is a dollar sign
\* and $& the matched text
ExpandReplacement(replacement, matched) ==
  LET RECURSIVE expand(_)
      expand(t) ==
        IF t = << >> THEN << >>
        ELSE IF StartsWith(t, <<"$", "$">>) THEN <<"$">> \o expand(SubSeq(t, 3, Len(t)))
        ELSE IF StartsWith(t, <<"$", "&">>) THEN matched \o expand(SubSeq(t, 3, Len(t)))
        ELSE <<Head(t)>> \o expand(Tail(t))
  IN expand(replacement)

\* str.replace(new RegExp(pattern, 'g'), replacement) for a literal pattern
ReplaceAll(str, pattern, replacement) ==
  LET RECURSIVE replace(_)
      replace(t) ==
        IF t = << >> THEN << >>
        ELSE IF StartsWith(t, pattern)
        THEN ExpandReplacement(replacement, pattern)
               \o replace(SubSeq(t, Len(pattern) + 1, Len(t)))
        ELSE <<Head(t)>> \o replace(Tail(t))
  IN replace(str)

\* urlVariables is the sequence of the object's <<key, value>> pairs in
\* Object.keys order; the placeholders are replaced one key after the other
replaceUrlTemplate(url, urlVariables) ==
  LET RECURSIVE forEach(_, _)
      forEach(result, i) ==
        IF i > Len(urlVariables) THEN result
        ELSE forEach(ReplaceAll(result, <<":">> \o urlVariables[i][1], urlVariables[i][2]),
                     i + 1)
  IN forEach(url, 1)

\* a query value: a string, an array of strings, undefined or null
QueryString(chars) == [kind |-> "string", chars |-> chars]
QueryArray(items) == [kind |-> "array", items |-> items]
QueryUndefined == [kind |-> "undefined"]
QueryNull == [kind |-> "null"]

\* the application/x-www-form-urlencoded serialisation of one character by
\* URLSearchParams.toString()
FormEncode(char) ==
  CASE char = " " -> <<"+">>
    [] char = "&" -> <<"%", "2", "6">>
    [] char = "=" -> <<"%", "3", "D">>
    [] char = "/" -> <<"%", "2", "F">>
    [] char = "?" -> <<"%", "3", "F">>
    [] char = ":" -> <<"%", "3", "A">>
    [] char = "+" -> <<"%", "2", "B">>
    [] char = "%" -> <<"%", "2", "5">>
    [] char = "$" -> <<"%", "2", "4">>
    [] OTHER -> <<char>>

FormEncoded(str) ==
  LET RECURSIVE encode(_)
      encode(t) == IF t = << >> THEN << >> ELSE FormEncode(Head(t)) \o encode(Tail(t))
  IN encode(str)

\* QueryPairs with a fault: only undefined is skipped, null is appended as 'null'
QueryPairsNullAppended(query) ==
  LET RECURSIVE forEach(_)
      forEach(i) ==
        IF i > Len(query) THEN << >>
        ELSE LET key == query[i][1]
                 value == query[i][2]
             IN (CASE value.kind = "array" ->
                        [j \in 1..Len(value.items) |-> <<key, value.items[j]>>]
                   [] value.kind = "string" -> << <<key, value.chars>> >>
                   [] value.kind = "null" -> << <<key, <<"n", "u", "l", "l">> >> >>
                   [] OTHER -> << >>)
                \o forEach(i + 1)
  IN forEach(1)

\* the <<name, value>> pairs params.append collects, in order
QueryPairs(query) ==
  LET RECURSIVE forEach(_)
      forEach(i) ==
        IF i > Len(query) THEN << >>
        ELSE LET key == query[i][1]
                 value == query[i][2]
             IN (CASE value.kind = "array" ->
                        [j \in 1..Len(value.items) |-> <<key, value.items[j]>>]
                   [] value.kind = "string" -> << <<key, value.chars>> >>
                   [] OTHER -> << >>)
                \o forEach(i + 1)
  IN forEach(1)

\* query is undefined or an object, given by its <<key, value>> pairs in
\* Object.keys order
buildQueryString(query) ==
  IF query.type = "undefined" \/ Len(query.entries) = 0 THEN << >>
  ELSE LET pairs == QueryPairs(query.entries)
           queryString ==
             Join([i \in 1..Len(pairs) |->
                     FormEncoded(pairs[i][1]) \o <<"=">> \o FormEncoded(pairs[i][2])],
                  <<"&">>)
       IN IF queryString # << >> THEN <<"?">> \o queryString ELSE << >>

---------------------------------------------------------------------------
(* Building the outbound request: proxy.ts, the middleware up to its try *)

\* if (proxyPath): a template was given and it is not the empty string
ProxyPathGiven(proxyPath) == proxyPath.type = "string" /\ proxyPath.chars # << >>

\* ModifiedProxyPath with a fault: the inbound path goes through the substitution too
ModifiedProxyPathAlwaysSubstituted(request) ==
  IF ProxyPathGiven(request.proxyPath)
  THEN replaceUrlTemplate(request.proxyPath.chars, request.params)
  ELSE replaceUrlTemplate(request.path, request.params)

\* modifiedProxyPath: the template with req.params substituted, or req.path
ModifiedProxyPath(request) ==
  IF ProxyPathGiven(request.proxyPath)
  THEN replaceUrlTemplate(request.proxyPath.chars, request.params)
  ELSE request.path

\* url: urlJoin(config.baseURL, modifiedProxyPath, qs)
PayloadUrl(cfg, request) ==
  urlJoin(<< cfg.baseURL, ModifiedProxyPath(request), buildQueryString(JsEntries(request.query)) >>)

StateChangingMethods == {"POST", "PUT", "PATCH", "DELETE"}

\* the boundary a FormData instance draws when it is made
FormDataBoundary == "------------------------0001"

\* bodyFormData.getHeaders() of the form-data package
FormDataHeaders == "content-type" :> ("multipart/form-data; boundary=" \o FormDataBoundary)

\* JavaScript truthiness of a header value read by name
HeaderTruthy(headers, name) == Has(headers, name) /\ headers[name] # ""

\* ClonedHeaders with a fault: the generator's object itself becomes payload.headers
AliasedHeaders(heap, ref, r) == [ref |-> ref, heap |-> heap]

\* headers: { ...config.headers(req) }: a new object holding a copy
ClonedHeaders(heap, ref, r) ==
  [ref |-> CloneId(r), heap |-> Store(heap, CloneId(r), heap[ref])]

\* timeout: config.timeout || DEFAULT_TIMEOUT
PayloadTimeout(cfg) ==
  IF Has(cfg, "timeout") /\ cfg.timeout # 0 THEN cfg.timeout ELSE DEFAULT_TIMEOUT

\* JSON.stringify(value) of a string: the text in double quotes
JsonString(text) == "\"" \o text \o "\""

\* JSON.stringify(value): undefined for undefined, else the JSON text; an
\* object is serialised key by key (the objects here have at most one key)
JsonStringify(value) ==
  LET RECURSIVE members(_, _)
      members(fields, keys) ==
        IF keys = {} THEN ""
        ELSE LET k == CHOOSE x \in keys : TRUE
             IN JsonString(k) \o ":" \o JsonString(fields[k])
                  \o (IF keys = {k} THEN "" ELSE "," \o members(fields, keys \ {k}))
  IN CASE value.type = "undefined" -> JsUndefined
       [] value.type = "null"      -> JsStr("null")
       [] value.type = "string"    -> JsStr(JsonString(value.str))
       [] value.type = "object"    ->
            JsStr("{" \o members(value.fields, DOMAIN value.fields) \o "}")

\* bodyFormData.append(key, String(value))
FormField(key, value) == [name |-> key, value |-> value]

\* bodyFormData.append(file.fieldname, file.buffer, { contentType, filename })
FilePart(file) ==
  [name |-> file.fieldname, value |-> file.buffer,
   contentType |-> file.mimetype, filename |-> file.originalname]

\* createFormDataPayload(req): the FormData and the parts appended to it, in
\* order: the body fields that are not null or undefined, then req.files when
\* it is an array, else req.file
createFormDataPayload(request) ==
  LET entries == IF Truthy(request.body) THEN ObjectEntries(request.body) ELSE << >>
      RECURSIVE fields(_)
      fields(i) ==
        IF i > Len(entries) THEN << >>
        ELSE (IF entries[i][2].type \notin {"undefined", "null"}
              THEN << FormField(entries[i][1], JsToString(entries[i][2])) >>
              ELSE << >>)
             \o fields(i + 1)
      files ==
        IF Has(request, "files") /\ request.files.type = "array"
        THEN [i \in 1..Len(request.files.items) |-> FilePart(request.files.items[i])]
        ELSE IF Has(request, "file") THEN << FilePart(request.file) >>
        ELSE << >>
  IN [type |-> "formdata", boundary |-> FormDataBoundary, entries |-> fields(1) \o files]

\* BodyOf with a fault: the method is not looked at
BodyOfAnyMethod(request, headers) ==
  IF request.multipart
  THEN [data |-> createFormDataPayload(request),
        headers |-> Assign(headers, FormDataHeaders)]
  ELSE [data |-> JsonStringify(request.body),
        headers |-> IF ~HeaderTruthy(headers, "Content-Type")
                    THEN SetField(headers, "Content-Type", "application/json")
                    ELSE headers]

\* the body branch: payload.data and the headers after enrichment
BodyOf(request, headers) ==
  IF request.method \in StateChangingMethods
  THEN IF request.multipart
       THEN [data |-> createFormDataPayload(request),
             headers |-> Assign(headers, FormDataHeaders)]
       ELSE [data |-> JsonStringify(request.body),
             headers |-> IF ~HeaderTruthy(headers, "Content-Type")
                         THEN SetField(headers, "Content-Type", "application/json")
                         ELSE headers]
  ELSE [headers |-> headers]

\* the options object axiosProxyRequest hands to axios
AxiosOptions(p, heap) ==
  Assign([url |-> p.url, method |-> p.method, headers |-> heap[p.headers],
          timeout |-> p.timeout,
          maxContentLength |-> MAX_REQUEST_SIZE, maxBodyLength |-> MAX_REQUEST_SIZE],
         IF Has(p, "data") /\ Truthy(p.data) THEN [data |-> p.data] ELSE EmptyObject)

---------------------------------------------------------------------------
(* The HTTP transport (axios) as axiosProxyRequest sees it *)


\* bodies a remote may answer with
RemoteBodies ==
  { JsNull,
    JsObject(EmptyObject),
    JsObject([message |-> ""]),
    JsObject([message |-> "User not found"]) }

RemoteHeaders == ("content-length" :> "27") @@ ("x-ratelimit-remaining" :> "0")

\* a response whose status passes axios's validateStatus
SuccessResponses ==
  { [status |-> 200, statusText |-> "OK", data |-> JsObject([id |-> 1]),
     headers |-> RemoteHeaders],
    [status |-> 201, statusText |-> "Created", data |-> JsObject([id |-> 2]),
     headers |-> RemoteHeaders] }

\* AxiosError: rejected with a response (status outside 2xx)
ErrorStatuses == {404, 500}
ResponseErrors ==
  { [message |-> "Request failed with status code " \o ToString(st),
     request |-> TRUE,
     response |-> [status |-> st, data |-> d, headers |-> RemoteHeaders]] :
      st \in ErrorStatuses, d \in RemoteBodies }
  \cup
  \* an error that carries a response but no request object
  { [message |-> "Request failed with status code 404",
     response |-> [status |-> 404, data |-> JsObject([message |-> "User not found"]),
                   headers |-> RemoteHeaders]] }

\* AxiosError: the request was sent and nothing came back
NoResponseErrors ==
  { [message |-> "timeout of 30000ms exceeded", request |-> TRUE],
    [message |-> "connect ECONNREFUSED", request |-> TRUE] }

\* an error raised before anything was sent
SetupErrors ==
  { [message |-> "Invalid URL"], [message |-> "Data is not serializable"] }

AxiosErrors == ResponseErrors \cup NoResponseErrors \cup SetupErrors

NotSettled == [settled |-> FALSE]
Resolved(response) == [settled |-> TRUE, ok |-> TRUE, response |-> response]
Rejected(error) == [settled |-> TRUE, ok |-> FALSE, error |-> error]

---------------------------------------------------------------------------
(* axiosProxyRequest's catch: proxy.ts, classification of the failure *)

\* (axiosError.response.data as Record)?.message, when it is truthy
RemoteMessageTruthy(data) ==
  /\ data.type = "object"
  /\ Has(data.fields, "message")
  /\ data.fields.message # ""

\* EnhancedError with a fault: the transport's message is always used
EnhancedErrorTransportMessage(axiosError) ==
  IF Has(axiosError, "response")
  THEN [message |-> axiosError.message,
        status  |-> axiosError.response.status,
        data    |-> axiosError.response.data,
        headers |-> axiosError.response.headers]
  ELSE IF Has(axiosError, "request")
  THEN [message |-> "Network error: No response received",
        status  |-> 503,
        code    |-> "NETWORK_ERROR"]
  ELSE [message |-> "Request setup error: " \o axiosError.message,
        status  |-> 500,
        code    |-> "REQUEST_ERROR"]

\* EnhancedError with a fault: axiosError.request is tested before axiosError.response
EnhancedErrorRequestFirst(axiosError) ==
  IF Has(axiosError, "request")
  THEN [message |-> "Network error: No response received",
        status  |-> 503,
        code    |-> "NETWORK_ERROR"]
  ELSE IF Has(axiosError, "response")
  THEN [message |-> IF RemoteMessageTruthy(axiosError.response.data)
                    THEN axiosError.response.data.fields.message
                    ELSE axiosError.message,
        status  |-> axiosError.response.status,
        data    |-> axiosError.response.data,
        headers |-> axiosError.response.headers]
  ELSE [message |-> "Request setup error: " \o axiosError.message,
        status  |-> 500,
        code    |-> "REQUEST_ERROR"]

EnhancedError(axiosError) ==
  IF Has(axiosError, "response")
  THEN [message |-> IF RemoteMessageTruthy(axiosError.response.data)
                    THEN axiosError.response.data.fields.message
                    ELSE axiosError.message,
        status  |-> axiosError.response.status,
        data    |-> axiosError.response.data,
        headers |-> axiosError.response.headers]
  ELSE IF Has(axiosError, "request")
  THEN [message |-> "Network error: No response received",
        status  |-> 503,
        code    |-> "NETWORK_ERROR"]
  ELSE [message |-> "Request setup error: " \o axiosError.message,
        status  |-> 500,
        code    |-> "REQUEST_ERROR"]

---------------------------------------------------------------------------
(* The express Response and defaultErrorHandler *)

NewResponse == [statusCode |-> 200, headers |-> EmptyObject, sent |-> << >>]

\* res.status(code)
ResStatus(rs, code) == [rs EXCEPT !.statusCode = code]

\* res.set(headers)
ResSet(rs, headers) == [rs EXCEPT !.headers = Assign(@, headers)]

\* res.json(body): one reply goes to the inbound caller; `by` names the writer
ResJson(rs, body, by) ==
  [rs EXCEPT !.sent = Append(@, [status |-> rs.statusCode, headers |-> rs.headers,
                                 body |-> body, by |-> by])]

\* header.toLowerCase() over the header names that occur
ToLowerCase(name) ==
  CASE name = "Content-Length" -> "content-length"
    [] name = "CONTENT-LENGTH" -> "content-length"
    [] name = "Content-Type"   -> "content-type"
    [] name = "Retry-After"    -> "retry-after"
    [] name = "Authorization"  -> "authorization"
    [] name = "X-Api-Key"      -> "x-api-key"
    [] OTHER -> name

\* error.status || 500 and the like
ErrorStatus(error)  == IF Has(error, "status") /\ error.status # 0 THEN error.status ELSE 500
ErrorMessage(error) == IF Has(error, "message") /\ error.message # ""
                       THEN error.message ELSE "Internal server error"
ErrorCode(error)    == IF Has(error, "code") /\ error.code # ""
                       THEN error.code ELSE "UNKNOWN_ERROR"
ErrorDataTruthy(error) == Has(error, "data") /\ Truthy(error.data)

\* ErrorResponse with a fault: the code is copied without its default
ErrorResponseCodeNotDefaulted(error) ==
  [error |-> Assign(Assign([message |-> ErrorMessage(error)],
                           IF Has(error, "code") THEN [code |-> error.code]
                           ELSE EmptyObject),
                    IF ErrorDataTruthy(error) THEN [details |-> error.data]
                    ELSE EmptyObject)]

ErrorResponse(error) ==
  [error |-> Assign([message |-> ErrorMessage(error), code |-> ErrorCode(error)],
                    IF ErrorDataTruthy(error) THEN [details |-> error.data]
                    ELSE EmptyObject)]

\* ForwardedHeaders with a fault: the name is compared without toLowerCase()
ForwardedHeadersCaseSensitive(error) ==
  IF Has(error, "headers")
  THEN [h \in {k \in DOMAIN error.headers : k # "content-length"} |->
          error.headers[h]]
  ELSE EmptyObject

\* the headers the forEach hands to res.set(header, error.headers[header])
ForwardedHeaders(error) ==
  IF Has(error, "headers")
  THEN [h \in {k \in DOMAIN error.headers : ToLowerCase(k) # "content-length"} |->
          error.headers[h]]
  ELSE EmptyObject

DefaultErrorHandler(error, rs) ==
  ResJson(ResStatus(ResSet(rs, ForwardedHeaders(error)), ErrorStatus(error)),
          ErrorResponse(error), "defaultErrorHandler")

\* header maps an error may carry, with content-length under several spellings
ErrorHeaderSets ==
  { ("retry-after" :> "60") @@ ("x-ratelimit-remaining" :> "0") @@ ("content-length" :> "100"),
    ("Retry-After" :> "60") @@ ("Content-Length" :> "100"),
    "CONTENT-LENGTH" :> "100",
    "x-ratelimit-remaining" :> "0" }

\* ProxyError values: an Error with optional status, code, data and headers
ProxyErrors ==
  { Assign(Assign(Assign(Assign([message |-> m], st), c), d), h) :
      m  \in {"", "Rate limited"},
      st \in {EmptyObject, [status |-> 0], [status |-> 429]},
      c  \in {EmptyObject, [code |-> ""], [code |-> "BAD_REQUEST"]},
      d  \in {EmptyObject} \cup
              { [data |-> v] : v \in {JsNull, JsBool(FALSE), JsNum(0), JsStr(""),
                                      JsObject([field |-> "name"])} },
      h  \in {EmptyObject} \cup { [headers |-> x] : x \in ErrorHeaderSets } }

---------------------------------------------------------------------------
(* Caller-supplied callbacks: what they may do when the engine calls them *)

\* values thrown by the callbacks
HeaderGeneratorError == [message |-> "header generator failed"]
ResponseHeadersError == [message |-> "responseHeaders failed"]
ResponseHandlerError == [message |-> "response handler failed"]

\* config.responseHeaders(remoteResponse)
ResponseHeaders(remoteResponse) ==
  "x-forwarded-header" :> remoteResponse.headers["x-ratelimit-remaining"]

\* a handler or custom error handler writes a reply through res, or does not,
\* and then returns (resolves) or throws (rejects)
WriterBehaviours == [writes : BOOLEAN, throws : BOOLEAN]

\* identities of the error objects of one request
CaughtId == "caught"

\* the hook may change fields of the error it was given before it settles
HookMutations == {"none", "fields"}
HookMutated(error, mutation) ==
  IF mutation = "fields"
  THEN Assign(error, [status |-> 418, message |-> "changed by hook",
                      context |-> "Added by hook"])
  ELSE error

\* objects the hook may allocate and return
HookObjects ==
  ("hookError" :> [message |-> "replaced by hook", status |-> 502]) @@
  ("hookPlain" :> [message |-> "plain object from hook"]) @@
  ("hookBare"  :> [context |-> "no message here"])

ErrorInstances == {CaughtId, "hookError"}

JsNumber == [type |-> "number"]
JsRef(id) == [type |-> "object", ref |-> id]

\* what the hook settles with: a returned (resolved) value or a throw (reject)
HookOutcomes ==
  { [throws |-> TRUE] } \cup
  { [throws |-> FALSE, value |-> v] :
      v \in {JsUndefined, JsNumber, JsRef(CaughtId), JsRef("hookError"),
             JsRef("hookPlain"), JsRef("hookBare")} }

---------------------------------------------------------------------------
(* createProxyController and validateConfig *)

JsFunction == [type |-> "function"]

\* obj.name: undefined when the object has no such property
FieldOf(obj, name) == IF Has(obj.fields, name) THEN obj.fields[name] ELSE JsUndefined

\* typeof value === 'function'
IsFunction(value) == value.type = "function"

\* what createProxyController(config) produced
NotCreated == [state |-> "pending"]
Returned == [state |-> "returned"]
Threw(message) == [state |-> "threw", message |-> message]

\* values a caller may put where a handler is expected
HandlerValues ==
  { JsFunction, JsStr("handler"), JsObject(EmptyObject),
    JsNull, JsBool(FALSE), JsNum(0), JsStr("") }

\* arguments a caller may hand to createProxyController
ConfigArguments ==
  { JsUndefined, JsNull } \cup
  { JsObject(Assign(Assign(Assign(b, h), eh), hook)) :
      b    \in {EmptyObject, [baseURL |-> JsStr("")], [baseURL |-> JsStr("http://example.com")]},
      h    \in {EmptyObject} \cup
               { [headers |-> v] : v \in {JsFunction, JsStr("Bearer token"), JsObject(EmptyObject)} },
      eh   \in {EmptyObject} \cup { [errorHandler |-> v] : v \in HandlerValues },
      hook \in {EmptyObject} \cup { [errorHandlerHook |-> v] : v \in HandlerValues } }

\* ValidateConfig with a fault: baseURL is tested for presence, not for truthiness
ValidateConfigBaseURLPresent(cfg) ==
  IF ~Truthy(cfg)
  THEN Threw("config is required for createProxyController")
  ELSE IF ~Has(cfg.fields, "baseURL")
  THEN Threw("config.baseURL is required")
  ELSE IF ~IsFunction(FieldOf(cfg, "headers"))
  THEN Threw("config.headers must be a function")
  ELSE IF Truthy(FieldOf(cfg, "errorHandler")) /\ ~IsFunction(FieldOf(cfg, "errorHandler"))
  THEN Threw("config.errorHandler must be a function")
  ELSE IF Truthy(FieldOf(cfg, "errorHandlerHook")) /\ ~IsFunction(FieldOf(cfg, "errorHandlerHook"))
  THEN Threw("config.errorHandlerHook must be a function")
  ELSE Returned

\* validateConfig(config), then the controller is returned
ValidateConfig(cfg) ==
  IF ~Truthy(cfg)
  THEN Threw("config is required for createProxyController")
  ELSE IF ~Truthy(FieldOf(cfg, "baseURL"))
  THEN Threw("config.baseURL is required")
  ELSE IF ~IsFunction(FieldOf(cfg, "headers"))
  THEN Threw("config.headers must be a function")
  ELSE IF Truthy(FieldOf(cfg, "errorHandler")) /\ ~IsFunction(FieldOf(cfg, "errorHandler"))
  THEN Threw("config.errorHandler must be a function")
  ELSE IF Truthy(FieldOf(cfg, "errorHandlerHook")) /\ ~IsFunction(FieldOf(cfg, "errorHandlerHook"))
  THEN Threw("config.errorHandlerHook must be a function")
  ELSE Returned

\* createProxyController(config): validateConfig throws or the controller is returned
CreateProxyController ==
  /\ controller.state = "pending"
  /\ controller' = ValidateConfig(config)
  /\ UNCHANGED << utilCall, config, pc, req, hdrObjs, generated, payload, wire, transport,
                  errObjs, processedError, res, nextArgs, log >>

\* proxyController(proxyPath, handler): the returned controller hands out the
\* middleware of one route
ProxyController(r) ==
  /\ controller.state = "returned"
  /\ pc[r] = "none"
  /\ pc' = [pc EXCEPT ![r] = "idle"]
  /\ UNCHANGED << utilCall, config, controller, req, hdrObjs, generated, payload, wire, transport,
                  errObjs, processedError, res, nextArgs, log >>

---------------------------------------------------------------------------
(* utils.ts: generateCurlCommand.  The command is the sequence of the pieces
   the code concatenates, each after a single space: the flag and the text
   that follows it, and for -H and -F the name the text starts with. *)

\* a character sequence as one string
Text(chars) ==
  LET RECURSIVE text(_)
      text(i) == IF i > Len(chars) THEN "" ELSE chars[i] \o text(i + 1)
  IN text(1)

\* -H 'key: value'
CurlHeader(key, value) ==
  [flag |-> "-H", name |-> key, text |-> "'" \o key \o ": " \o value \o "'"]

\* -F 'key=value'
CurlField(key, value) ==
  [flag |-> "-F", name |-> key, text |-> "'" \o key \o "=" \o value \o "'"]

\* -d 'data'
CurlData(data) == [flag |-> "-d", text |-> "'" \o data \o "'"]

\* the -H flags: one per header, content-type in any letter case left out for
\* a FormData body (the header maps of the model keep no insertion order: the
\* flags come in one fixed order of the names)
CurlHeaderFlags(headers, isFormData) ==
  LET RECURSIVE flags(_)
      flags(keys) ==
        IF keys = {} THEN << >>
        ELSE LET k == CHOOSE x \in keys : TRUE
             IN (IF ~(isFormData /\ ToLowerCase(k) = "content-type")
                 THEN << CurlHeader(k, headers[k]) >>
                 ELSE << >>)
                \o flags(keys \ {k})
  IN flags(DOMAIN headers)

\* formFields: one -F flag per body key, then one per file of req.files when
\* it is an array, else one for req.file
CurlFormFields(request) ==
  LET entries == IF Truthy(request.body) THEN ObjectEntries(request.body) ELSE << >>
      fields == [i \in 1..Len(entries) |->
                   CurlField(entries[i][1], JsToString(entries[i][2]))]
      fileFlag(file) == CurlField(file.fieldname, "@" \o file.originalname)
      files ==
        IF Has(request, "files") /\ request.files.type = "array"
        THEN [i \in 1..Len(request.files.items) |-> fileFlag(request.files.items[i])]
        ELSE IF Has(request, "file") THEN << fileFlag(request.file) >>
        ELSE << >>
  IN fields \o files

\* generateCurlCommand(payload, req), payload.headers being the header map; with
\* no form field at all the command ends in the space that precedes the fields
generateCurlCommand(options, request) ==
  LET hasData == Has(options, "data") /\ Truthy(options.data)
      isFormData == Has(options, "data") /\ options.data.type = "formdata"
      body ==
        IF ~hasData THEN << >>
        ELSE IF options.data.type = "string" THEN << CurlData(options.data.str) >>
        ELSE IF isFormData
        THEN IF CurlFormFields(request) = << >> THEN << [flag |-> "", text |-> ""] >>
             ELSE CurlFormFields(request)
        ELSE << CurlData("<binary-data>") >>
  IN << [flag |-> "curl",
         text |-> "-X " \o options.method \o " '" \o Text(options.url) \o "'"] >>
       \o CurlHeaderFlags(options.headers, isFormData) \o body

---------------------------------------------------------------------------
(* The middleware returned by proxyController(proxyPath, handler) *)

\* GET /u/7 on a route /u/:id with no query
ExamplePath == [path |-> <<"/", "u", "/", "7">>,
                params |-> << << <<"i", "d">>, <<"7">> >> >>,
                query |-> << >>]

\* the inbound request with the arguments the route's middleware was made with
InboundRequest(method, multipart, body, where, proxyPath, handler) ==
  [method |-> method, multipart |-> multipart, body |-> body,
   path |-> where.path, params |-> where.params, query |-> where.query,
   proxyPath |-> proxyPath, handler |-> handler]

InboundRequests(methods, handlers) ==
  { InboundRequest(m, mp, JsObject([name |-> "John"]), ExamplePath, JsUndefined, h) :
      m \in methods, mp \in BOOLEAN, h \in handlers }

Event(name) == [ev |-> name]
Logged(r, entry) == [log EXCEPT ![r] = Append(@, entry)]

\* how the function handed to asyncWrapper ends: it completes, it throws
\* before returning a promise, or its promise rejects
FnReturns == [kind |-> "returns"]
FnThrows(error) == [kind |-> "throws", error |-> error]
FnRejects(error) == [kind |-> "rejects", error |-> error]

\* asyncWrapper with a fault: control is passed on after fn completed too
asyncWrapperNextAlways(settled, nextCalls) ==
  [promise |-> "resolved",
   next |-> IF settled.kind = "returns" THEN Append(nextCalls, JsUndefined)
            ELSE Append(nextCalls, settled.error)]

\* the function asyncWrapper(fn) returns, called with a next that has been
\* called with nextCalls: try { await fn(req, res, next) } catch (error)
\* { next(error) }; how its promise settles and the calls of next after it
asyncWrapper(settled, nextCalls) ==
  [promise |-> "resolved",
   next |-> IF settled.kind = "returns" THEN nextCalls
            ELSE Append(nextCalls, settled.error)]

\* the segment of the async function that just ran was its last one: the await
\* of asyncWrapper completes
Wrapped(r) ==
  nextArgs' = [nextArgs EXCEPT ![r] =
                 IF pc'[r] = "done" THEN asyncWrapper(FnReturns, @).next ELSE @]

\* the async function returns
Finish(r, rs, lg) ==
  /\ pc' = [pc EXCEPT ![r] = "done"]
  /\ res' = [res EXCEPT ![r] = rs]
  /\ log' = [log EXCEPT ![r] = lg]
  /\ UNCHANGED << errObjs, processedError >>

\* await errorHandler(processedError, req, res)
InvokeErrorHandler(r, ref, objs, rs, lg) ==
  LET who  == ErrorHandlerOf(config)
      call == [ev |-> "errorHandler", who |-> who, ref |-> ref, error |-> objs[ref]]
  IN /\ errObjs' = [errObjs EXCEPT ![r] = objs]
     /\ processedError' = [processedError EXCEPT ![r] = ref]
     /\ log' = [log EXCEPT ![r] = Append(lg, call)]
     /\ IF who = "default"
        THEN /\ res' = [res EXCEPT ![r] = DefaultErrorHandler(objs[ref], rs)]
             /\ pc' = [pc EXCEPT ![r] = "done"]
        ELSE /\ res' = [res EXCEPT ![r] = rs]
             /\ pc' = [pc EXCEPT ![r] = "errorHandler"]

\* Catch with a fault: the hook is called but not awaited
CatchHookNotAwaited(r, error, rs, lg) ==
  InvokeErrorHandler(r, CaughtId, CaughtId :> error, rs,
                     IF ErrorHandlerHookOf(config)
                     THEN Append(lg, [ev |-> "errorHandlerHook", ref |-> CaughtId,
                                      error |-> error])
                     ELSE lg)

\* catch (error) of the middleware's try: let processedError = error, then the
\* hook when one is configured, else the error handler
Catch(r, error, rs, lg) ==
  LET objs == CaughtId :> error IN
  IF ErrorHandlerHookOf(config)
  THEN /\ errObjs' = [errObjs EXCEPT ![r] = objs]
       /\ processedError' = [processedError EXCEPT ![r] = CaughtId]
       /\ log' = [log EXCEPT ![r] =
                    Append(lg, [ev |-> "errorHandlerHook", ref |-> CaughtId, error |-> error])]
       /\ res' = [res EXCEPT ![r] = rs]
       /\ pc' = [pc EXCEPT ![r] = "errorHandlerHook"]
  ELSE InvokeErrorHandler(r, CaughtId, objs, rs, lg)

\* process.env.NODE_ENV === 'development' when the middleware runs
Development(request) == Has(request, "nodeEnv") /\ request.nodeEnv = "development"

\* the middleware is called: query, path, payload and body are built, then
\* axiosProxyRequest(payload) hands the call to axios and the function awaits
MiddlewareCall(r, request) ==
  /\ controller.state = "returned"
  /\ pc[r] = "idle"
  /\ req' = [req EXCEPT ![r] = request]
  /\ UNCHANGED << utilCall, config, controller, transport, errObjs, processedError, res >>
  /\ IF config.headers = "throws"
     THEN \* thrown before the try: the function rejects, asyncWrapper calls next(error)
          /\ nextArgs' = [nextArgs EXCEPT ![r] =
                            asyncWrapper(FnRejects(HeaderGeneratorError), @).next]
          /\ pc' = [pc EXCEPT ![r] = "done"]
          /\ log' = Logged(r, Event("headers"))
          /\ UNCHANGED << hdrObjs, generated, payload, wire >>
     ELSE LET gen    == HeaderGenerator(config.headers, hdrObjs, r)
              cloned == ClonedHeaders(gen.heap, gen.ref, r)
              body   == BodyOf(request, cloned.heap[cloned.ref])
              heap   == Store(cloned.heap, cloned.ref, body.headers)
              p      == Assign([url |-> PayloadUrl(config, request),
                                headers |-> cloned.ref, method |-> request.method,
                                timeout |-> PayloadTimeout(config)],
                               IF Has(body, "data") THEN [data |-> body.data]
                               ELSE EmptyObject)
          IN /\ hdrObjs' = heap
             /\ generated' = Store(generated, gen.ref, gen.heap[gen.ref])
             /\ payload' = [payload EXCEPT ![r] = p]
             /\ wire' = [wire EXCEPT ![r] = Append(@, AxiosOptions(p, heap))]
             /\ log' = [log EXCEPT ![r] =
                          Append(IF Development(request)
                                 THEN Append(@, [ev |-> "console.log",
                                                 command |-> generateCurlCommand(
                                                   [p EXCEPT !.headers = heap[p.headers]],
                                                   request)])
                                 ELSE @,
                                 Event("axios"))]
             /\ pc' = [pc EXCEPT ![r] = "axios"]
             /\ UNCHANGED nextArgs

\* handler(req, res, remoteResponse) is called: the arguments, with res as it
\* is at the call
HandlerCall(r, rs, remoteResponse) ==
  [ev |-> "handler", req |-> req[r], res |-> rs, remoteResponse |-> remoteResponse]

\* OnSuccess with a fault: the remote status is not set on the reply
OnSuccessStatusNotSet(r, remoteResponse) ==
  LET handler == req[r].handler IN
  CASE handler = "none" ->
         IF config.responseHeaders = "throws"
         THEN Catch(r, ResponseHeadersError, res[r], log[r])
         ELSE LET rs2 == IF config.responseHeaders = "fn"
                         THEN ResSet(res[r], ResponseHeaders(remoteResponse))
                         ELSE res[r]
              IN Finish(r, ResJson(rs2, remoteResponse.data, "relay"), log[r])
    [] handler = "fn" ->
         /\ pc' = [pc EXCEPT ![r] = "handler"]
         /\ log' = Logged(r, HandlerCall(r, res[r], remoteResponse))
         /\ UNCHANGED << res, errObjs, processedError >>
    [] handler = "true" ->
         Finish(r, ResJson(res[r], remoteResponse.data, "relay"), log[r])

\* OnSuccess with a fault: the remote status is set before the branch on the handler
OnSuccessStatusSetFirst(r, remoteResponse) ==
  LET handler == req[r].handler
      rs1 == ResStatus(res[r], remoteResponse.status)
  IN
  CASE handler = "none" ->
         IF config.responseHeaders = "throws"
         THEN Catch(r, ResponseHeadersError, rs1, log[r])
         ELSE LET rs2 == IF config.responseHeaders = "fn"
                         THEN ResSet(rs1, ResponseHeaders(remoteResponse))
                         ELSE rs1
              IN Finish(r, ResJson(rs2, remoteResponse.data, "relay"), log[r])
    [] handler = "fn" ->
         /\ pc' = [pc EXCEPT ![r] = "handler"]
         /\ log' = Logged(r, HandlerCall(r, rs1, remoteResponse))
         /\ res' = [res EXCEPT ![r] = rs1]
         /\ UNCHANGED << errObjs, processedError >>
    [] handler = "true" ->
         Finish(r, ResJson(rs1, remoteResponse.data, "relay"), log[r])

\* the success branch: if (!handler) ... else if (typeof handler === 'function') ... else
OnSuccess(r, remoteResponse) ==
  LET handler == req[r].handler IN
  CASE handler = "none" ->
         LET rs1 == ResStatus(res[r], remoteResponse.status) IN
         IF config.responseHeaders = "throws"
         THEN Catch(r, ResponseHeadersError, rs1, log[r])
         ELSE LET rs2 == IF config.responseHeaders = "fn"
                         THEN ResSet(rs1, ResponseHeaders(remoteResponse))
                         ELSE rs1
              IN Finish(r, ResJson(rs2, remoteResponse.data, "relay"), log[r])
    [] handler = "fn" ->
         /\ pc' = [pc EXCEPT ![r] = "handler"]
         /\ log' = Logged(r, HandlerCall(r, res[r], remoteResponse))
         /\ UNCHANGED << res, errObjs, processedError >>
    [] handler = "true" ->
         Finish(r, ResJson(res[r], remoteResponse.data, "relay"), log[r])

\* Resume with a fault: a call that got no response is sent again
ResumeWithRetry(r, outcome) ==
  IF ~outcome.ok /\ ~Has(outcome.error, "response") /\ Len(wire[r]) <= DEFAULT_RETRY_COUNT
  THEN /\ wire' = [wire EXCEPT ![r] = Append(@, AxiosOptions(payload[r], hdrObjs))]
       /\ UNCHANGED << pc, res, log, errObjs, processedError >>
  ELSE /\ UNCHANGED wire
       /\ IF outcome.ok
          THEN OnSuccess(r, outcome.response)
          ELSE LET error == EnhancedError(outcome.error) IN
               Catch(r, error, res[r],
                     Append(log[r], [ev |-> "axiosRejected", error |-> error]))

\* axiosProxyRequest(payload) settles once, with whatever the one axios call
\* settled with: it returns the response or throws the classified error, and
\* the middleware resumes after its await
Resume(r, outcome) ==
  /\ UNCHANGED wire
  /\ IF outcome.ok
     THEN OnSuccess(r, outcome.response)
     ELSE LET error == EnhancedError(outcome.error) IN
          Catch(r, error, res[r],
                Append(log[r], [ev |-> "axiosRejected", error |-> error]))

AxiosSettles(r, outcome) ==
  /\ pc[r] = "axios"
  /\ transport' = [transport EXCEPT ![r] = outcome]
  /\ UNCHANGED << utilCall, config, controller, req, hdrObjs, generated, payload >>
  /\ Resume(r, outcome)
  /\ Wrapped(r)

\* await handler(req, res, remoteResponse) settles
HandlerSettles(r) ==
  /\ pc[r] = "handler"
  /\ UNCHANGED << utilCall, config, controller, req, hdrObjs, generated, payload, wire, transport >>
  /\ \E b \in WriterBehaviours :
       LET rs == IF b.writes
                 THEN ResJson(res[r], [transformed |-> TRUE], "responseHandler")
                 ELSE res[r]
           lg == Append(log[r], [ev |-> "handlerSettled", threw |-> b.throws])
       IN IF b.throws
          THEN Catch(r, ResponseHandlerError, rs, lg)
          ELSE Finish(r, rs, lg)
  /\ Wrapped(r)

\* HookResultAccepted with a fault: any object the hook returns is taken
HookResultAcceptedAnyObject(value, objs) == value.type = "object"

\* hookResult && (hookResult instanceof Error || 'message' in hookResult);
\* for a truthy primitive the `in` throws a TypeError inside the hook's try
HookResultAccepted(value, objs) ==
  /\ value.type = "object"
  /\ (value.ref \in ErrorInstances \/ Has(objs[value.ref], "message"))

\* processedError after the hook's try/catch
ProcessedAfterHook(before, outcome, objs) ==
  IF ~outcome.throws /\ HookResultAccepted(outcome.value, objs)
  THEN outcome.value.ref
  ELSE before

\* await errorHandlerHook(processedError, req, res) settles, then the error
\* handler is invoked
HookSettles(r) ==
  /\ pc[r] = "errorHandlerHook"
  /\ UNCHANGED << utilCall, config, controller, req, hdrObjs, generated, payload, wire, transport >>
  /\ \E mutation \in HookMutations, outcome \in HookOutcomes :
       LET objs0 == Store(errObjs[r], CaughtId, HookMutated(errObjs[r][CaughtId], mutation))
           objs  == IF ~outcome.throws /\ outcome.value.type = "object"
                       /\ outcome.value.ref # CaughtId
                    THEN Store(objs0, outcome.value.ref, HookObjects[outcome.value.ref])
                    ELSE objs0
           ref   == ProcessedAfterHook(processedError[r], outcome, objs)
           lg    == Append(log[r], [ev |-> "hookSettled", mutation |-> mutation,
                                    outcome |-> outcome])
       IN InvokeErrorHandler(r, ref, objs, res[r], lg)
  /\ Wrapped(r)

\* FallbackError with a fault: the fallback renders the error as it was caught
FallbackErrorPreHook(r) == CaughtId

\* the error the fallback hands to defaultErrorHandler
FallbackError(r) == processedError[r]

\* catch (handlerError): defaultErrorHandler(processedError, req, res)
Fallback(r, rs, lg) ==
  LET ref == FallbackError(r) IN
  /\ res' = [res EXCEPT ![r] = DefaultErrorHandler(errObjs[r][ref], rs)]
  /\ log' = [log EXCEPT ![r] =
               Append(lg, [ev |-> "fallback", ref |-> ref, error |-> errObjs[r][ref]])]
  /\ pc' = [pc EXCEPT ![r] = "done"]
  /\ UNCHANGED << errObjs, processedError >>

\* await errorHandler(processedError, req, res) of a custom handler settles
ErrorHandlerSettles(r) ==
  /\ pc[r] = "errorHandler"
  /\ UNCHANGED << utilCall, config, controller, req, hdrObjs, generated, payload, wire, transport >>
  /\ \E b \in WriterBehaviours :
       LET error == errObjs[r][processedError[r]]
           rs == IF b.writes
                 THEN ResJson(ResStatus(res[r], ErrorStatus(error)),
                              [success |-> FALSE], "errorHandler")
                 ELSE res[r]
           lg == Append(log[r], [ev |-> "errorHandlerSettled", threw |-> b.throws])
       IN IF b.throws
          THEN Fallback(r, rs, lg)
          ELSE Finish(r, rs, lg)
  /\ Wrapped(r)

---------------------------------------------------------------------------
(* Specifications *)

InitWith(configs) ==
  /\ config \in configs
  /\ controller = Returned
  /\ pc = [r \in Requests |-> "idle"]
  /\ req = [r \in Requests |-> NoRequest]
  /\ hdrObjs = IF config.headers \in {"shared", "reuse"}
               THEN SharedId :> SharedHeaders
               ELSE EmptyObject
  /\ generated = EmptyObject
  /\ payload = [r \in Requests |-> EmptyObject]
  /\ wire = [r \in Requests |-> << >>]
  /\ transport = [r \in Requests |-> NotSettled]
  /\ errObjs = [r \in Requests |-> EmptyObject]
  /\ processedError = [r \in Requests |-> "none"]
  /\ res = [r \in Requests |-> NewResponse]
  /\ nextArgs = [r \in Requests |-> << >>]
  /\ log = [r \in Requests |-> << >>]
  /\ utilCall = NoCall

\* one request through a controller, every configuration, outcome and callback
Init ==
  InitWith(ValidConfigs({"fresh", "throws"}, ResponseHeadersKinds, {EmptyObject}))

Invoke(r) ==
  \E request \in InboundRequests(Methods, HandlerArgs) : MiddlewareCall(r, request)

TransportSettles(r) ==
  \E outcome \in {Resolved(x) : x \in SuccessResponses} \cup {Rejected(e) : e \in AxiosErrors} :
    AxiosSettles(r, outcome)

Next ==
  \E r \in {1} :
    \/ Invoke(r)
    \/ TransportSettles(r)
    \/ HandlerSettles(r)
    \/ HookSettles(r)
    \/ ErrorHandlerSettles(r)

Spec == Init /\ [][Next]_vars

\* concurrent requests through one controller that relays with the default
\* error handler: the header generator returns a new object per request, one
\* shared object, or one shared object it refills per request
RelayConfigs ==
  { [baseURL |-> ExampleBaseURL, headers |-> h, responseHeaders |-> "none"] :
      h \in {"fresh", "shared", "reuse"} }

InitConcurrent == InitWith(RelayConfigs)

InvokeRelay(r) ==
  \E request \in InboundRequests({"GET", "POST"}, {"none"}) : MiddlewareCall(r, request)

TransportAnswers(r) ==
  \E outcome \in {Resolved(x) : x \in SuccessResponses} \cup
                 {Rejected(e) : e \in NoResponseErrors} :
    AxiosSettles(r, outcome)

NextConcurrent ==
  \E r \in Requests :
    \/ InvokeRelay(r)
    \/ TransportAnswers(r)

SpecConcurrent == InitConcurrent /\ [][NextConcurrent]_vars

\* defaultErrorHandler(error, req, res) called on its own, as the exported
\* function it is, with a new Response
DefaultErrorHandlerCall(r) ==
  /\ pc[r] = "idle"
  /\ CaughtId \in DOMAIN errObjs[r]
  /\ res' = [res EXCEPT ![r] = DefaultErrorHandler(errObjs[r][CaughtId], res[r])]
  /\ log' = Logged(r, [ev |-> "errorHandler", who |-> "default", ref |-> CaughtId,
                       error |-> errObjs[r][CaughtId]])
  /\ pc' = [pc EXCEPT ![r] = "done"]
  /\ UNCHANGED << utilCall, config, controller, req, hdrObjs, generated, payload, wire, transport,
                  errObjs, processedError, nextArgs >>

InitErrorHandler ==
  /\ config \in RelayConfigs
  /\ controller = Returned
  /\ pc = [r \in Requests |-> "idle"]
  /\ req = [r \in Requests |-> NoRequest]
  /\ hdrObjs = EmptyObject
  /\ generated = EmptyObject
  /\ payload = [r \in Requests |-> EmptyObject]
  /\ wire = [r \in Requests |-> << >>]
  /\ transport = [r \in Requests |-> NotSettled]
  /\ \E e \in ProxyErrors :
       errObjs = [r \in Requests |-> IF r = 1 THEN CaughtId :> e ELSE EmptyObject]
  /\ processedError = [r \in Requests |-> IF r = 1 THEN CaughtId ELSE "none"]
  /\ res = [r \in Requests |-> NewResponse]
  /\ nextArgs = [r \in Requests |-> << >>]
  /\ log = [r \in Requests |-> << >>]
  /\ utilCall = NoCall

NextErrorHandler == \E r \in {1} : DefaultErrorHandlerCall(r)

SpecErrorHandler == InitErrorHandler /\ [][NextErrorHandler]_vars

\* one request through a relaying controller, over the inbound methods, bodies,
\* paths, parameters and queries, the route's path template and the header
\* generator's content type
HttpMethods == {"GET", "HEAD", "OPTIONS", "POST", "PUT", "PATCH", "DELETE"}

\* req.body: undefined without a body parser, else the parsed object
InboundBodies == {JsUndefined, JsObject(EmptyObject), JsObject([name |-> "John"])}

\* GET /u/a%2Fb and GET /u/x%3Fy%3D1 on /u/:id: express decodes the parameter,
\* req.params.id is 'a/b' and 'x?y=1'
EncodedSlashPath == [path |-> <<"/", "u", "/", "a", "%", "2", "F", "b">>,
                     params |-> << << <<"i", "d">>, <<"a", "/", "b">> >> >>,
                     query |-> << >>]
EncodedQueryPath == [path |-> <<"/", "u", "/", "x", "%", "3", "F", "y", "%", "3", "D", "1">>,
                     params |-> << << <<"i", "d">>, <<"x", "?", "y", "=", "1">> >> >>,
                     query |-> << >>]

\* req.path, req.params and req.query of five inbound requests:
\* GET /u/7 on /u/:id; GET /:b/7?p=1+2 on /:a/:b; GET /u/7/?t=x&t=y&u on /u/:id;
\* the two with an encoded '/' and '?' in the parameter
InboundPaths ==
  { ExamplePath,
    EncodedSlashPath,
    EncodedQueryPath,
    [path |-> <<"/", ":", "b", "/", "7">>,
     params |-> << << <<"a">>, <<":", "b">> >>, << <<"b">>, <<"7">> >> >>,
     query |-> << << <<"p">>, QueryString(<<"1", " ", "2">>) >> >>],
    [path |-> <<"/", "u", "/", "7", "/">>,
     params |-> << << <<"i", "d">>, <<"7">> >> >>,
     query |-> << << <<"t">>, QueryArray(<< <<"x">>, <<"y">> >>) >>,
                  << <<"u">>, QueryUndefined >> >>] }

PathTemplate(chars) == [type |-> "string", chars |-> chars]

\* the proxyPath argument: omitted, '', '/a/:id' and 'a/:b/:id/'
ProxyPaths ==
  { JsUndefined,
    PathTemplate(<< >>),
    PathTemplate(<<"/", "a", "/", ":", "i", "d">>),
    PathTemplate(<<"a", "/", ":", "b", "/", ":", "i", "d", "/">>) }

OutboundRequests ==
  { InboundRequest(m, mp, b, w, pp, "none") :
      m \in HttpMethods, mp \in BOOLEAN, b \in InboundBodies,
      w \in InboundPaths, pp \in ProxyPaths }

\* config.timeout: left out, 0 (no timeout, for axios) and 5 s
ConfiguredTimeouts == {EmptyObject, [timeout |-> 0], [timeout |-> 5000]}

OutboundConfigs ==
  { Assign([baseURL |-> b, headers |-> h, responseHeaders |-> "none"], t) :
      b \in {ExampleBaseURL, ExampleBaseURL \o <<"/">>},
      h \in {"fresh", "Content-Type", "content-type"},
      t \in ConfiguredTimeouts }

InitOutbound == InitWith(OutboundConfigs)

InvokeOutbound(r) ==
  \E request \in OutboundRequests : MiddlewareCall(r, request)

NextOutbound ==
  \E r \in {1} :
    \/ InvokeOutbound(r)
    \/ TransportAnswers(r)

SpecOutbound == InitOutbound /\ [][NextOutbound]_vars

\* one multipart request through a relaying controller, over the parsed body
\* fields, the uploaded files and NODE_ENV
UploadMethods == {"GET", "POST", "PUT"}

\* req.body as the multipart parser leaves it, and as the unit tests give it
UploadBodies ==
  { JsUndefined,
    JsEntries(<< <<"name", JsStr("John")>> >>),
    JsEntries(<< <<"name", JsStr("John")>>,
                 <<"tags", JsArray(<< JsStr("js"), JsStr("node") >>)>> >>),
    JsEntries(<< <<"tags", JsArray(<< >>)>>, <<"age", JsNum(30)>> >>),
    JsEntries(<< <<"note", JsNull>>, <<"active", JsBool(TRUE)>>,
                 <<"nick", JsUndefined>> >>) }

\* a file as multer hands it over
FileUpload(fieldname, originalname, mimetype, buffer) ==
  [fieldname |-> fieldname, originalname |-> originalname,
   mimetype |-> mimetype, buffer |-> buffer]

Avatar == FileUpload("avatar", "me.png", "image/png", "PNG-bytes")
Report == FileUpload("docs", "report.pdf", "application/pdf", "PDF-bytes")
Notes == FileUpload("docs", "notes.txt", "text/plain", "TXT-bytes")

\* the upload shapes: no file, upload.single (req.file), upload.array
\* (req.files as array), upload.fields (req.files as object keyed by field)
UploadShapes ==
  { EmptyObject,
    [file |-> Avatar],
    [files |-> JsArray(<< Report, Notes >>)],
    [files |-> JsArray(<< >>)],
    [files |-> JsEntries(<< <<"avatar", JsArray(<< Avatar >>)>>,
                            <<"docs", JsArray(<< Report, Notes >>)>> >>)] }

UploadRequests ==
  { Assign(Assign(InboundRequest(m, TRUE, b, ExamplePath, JsUndefined, "none"), u),
           [nodeEnv |-> env]) :
      m \in UploadMethods, b \in UploadBodies, u \in UploadShapes,
      env \in {"development", "production"} }

UploadConfigs ==
  { [baseURL |-> ExampleBaseURL, headers |-> h, responseHeaders |-> "none"] :
      h \in {"fresh", "Content-Type", "content-type"} }

InitUpload == InitWith(UploadConfigs)

InvokeUpload(r) ==
  \E request \in UploadRequests : MiddlewareCall(r, request)

NextUpload ==
  \E r \in {1} :
    \/ InvokeUpload(r)
    \/ TransportAnswers(r)

SpecUpload == InitUpload /\ [][NextUpload]_vars

\* urlJoin, replaceUrlTemplate and buildQueryString called on their own, as the
\* unit tests call them

\* '', '/', 'api', '/api/', 'a//b', '?p=1', 'http://h' and 'http://h/'
UrlParts ==
  { << >>,
    <<"/">>,
    <<"a", "p", "i">>,
    <<"/", "a", "p", "i", "/">>,
    <<"a", "/", "/", "b">>,
    <<"?", "p", "=", "1">>,
    ExampleBaseURL,
    ExampleBaseURL \o <<"/">> }

\* urlJoin(...parts) with up to MaxParts parts
UrlJoinArguments == UNION { [1..n -> UrlParts] : n \in 0..MaxParts }

\* '/u/:id', '/u/:id/i/:idx', '/:id/:b', '/u/p' and ':id:id'
UrlTemplates ==
  { <<"/", "u", "/", ":", "i", "d">>,
    <<"/", "u", "/", ":", "i", "d", "/", "i", "/", ":", "i", "d", "x">>,
    <<"/", ":", "i", "d", "/", ":", "b">>,
    <<"/", "u", "/", "p">>,
    <<":", "i", "d", ":", "i", "d">> }

TemplateKeys == { <<"i", "d">>, <<"i", "d", "x">>, <<"b">> }

\* the values of the variables: '7', ':b' and '$&'
TemplateValues == { <<"7">>, <<":", "b">>, <<"$", "&">> }

\* objects of at most two variables, as the sequence of their pairs in
\* Object.keys order
UrlVariableObjects ==
  { << >> } \cup
  { << <<k, v>> >> : k \in TemplateKeys, v \in TemplateValues } \cup
  { << <<ks[1], v1>>, <<ks[2], v2>> >> :
      ks \in {x \in TemplateKeys \X TemplateKeys : x[1] # x[2]},
      v1 \in TemplateValues, v2 \in TemplateValues }

\* the keys 'p', 't' and 'a b'
QueryKeys == { <<"p">>, <<"t">>, <<"a", " ", "b">> }

\* '1', '1 2', 'a&b=c', ['x', 'y'], [], undefined and null
QueryValues ==
  { QueryString(<<"1">>),
    QueryString(<<"1", " ", "2">>),
    QueryString(<<"a", "&", "b", "=", "c">>),
    QueryArray(<< <<"x">>, <<"y">> >>),
    QueryArray(<< >>),
    QueryUndefined,
    QueryNull }

\* no query object, and query objects of at most two keys
QueryObjects ==
  { JsUndefined, JsEntries(<< >>) } \cup
  { JsEntries(<< <<k, v>> >>) : k \in QueryKeys, v \in QueryValues } \cup
  { JsEntries(<< <<ks[1], v1>>, <<ks[2], v2>> >>) :
      ks \in {x \in QueryKeys \X QueryKeys : x[1] # x[2]},
      v1 \in QueryValues, v2 \in QueryValues }

Called(fn, args) == [fn |-> fn, args |-> args, returned |-> FALSE]

InitUtils ==
  /\ \/ \E parts \in UrlJoinArguments : utilCall = Called("urlJoin", << parts >>)
     \/ \E url \in UrlTemplates, urlVariables \in UrlVariableObjects :
          utilCall = Called("replaceUrlTemplate", << url, urlVariables >>)
     \/ \E query \in QueryObjects : utilCall = Called("buildQueryString", << query >>)
  /\ config = JsUndefined
  /\ controller = NotCreated
  /\ pc = [r \in Requests |-> "none"]
  /\ req = [r \in Requests |-> NoRequest]
  /\ hdrObjs = EmptyObject
  /\ generated = EmptyObject
  /\ payload = [r \in Requests |-> EmptyObject]
  /\ wire = [r \in Requests |-> << >>]
  /\ transport = [r \in Requests |-> NotSettled]
  /\ errObjs = [r \in Requests |-> EmptyObject]
  /\ processedError = [r \in Requests |-> "none"]
  /\ res = [r \in Requests |-> NewResponse]
  /\ nextArgs = [r \in Requests |-> << >>]
  /\ log = [r \in Requests |-> << >>]

\* the called function returns
Return(fn, result) ==
  /\ utilCall.fn = fn
  /\ ~utilCall.returned
  /\ utilCall' = [fn |-> fn, args |-> utilCall.args, returned |-> TRUE, result |-> result]
  /\ UNCHANGED << config, controller, pc, req, hdrObjs, generated, payload, wire,
                  transport, errObjs, processedError, res, nextArgs, log >>

UrlJoinCall ==
  /\ utilCall.fn = "urlJoin"
  /\ Return("urlJoin", urlJoin(utilCall.args[1]))

ReplaceUrlTemplateCall ==
  /\ utilCall.fn = "replaceUrlTemplate"
  /\ Return("replaceUrlTemplate", replaceUrlTemplate(utilCall.args[1], utilCall.args[2]))

BuildQueryStringCall ==
  /\ utilCall.fn = "buildQueryString"
  /\ Return("buildQueryString", buildQueryString(utilCall.args[1]))

NextUtils ==
  \/ UrlJoinCall
  \/ ReplaceUrlTemplateCall
  \/ BuildQueryStringCall

SpecUtils == InitUtils /\ [][NextUtils]_vars

\* asyncWrapper(fn) called on its own with a new next, as the unit tests call
\* it, next to the requests of Spec, whose middleware it wraps
WrappedFnError == [message |-> "Test error"]

FnOutcomes == {FnReturns, FnThrows(WrappedFnError), FnRejects(WrappedFnError)}

InitAsyncWrapper ==
  /\ utilCall \in {Called("asyncWrapper", << settled >>) : settled \in FnOutcomes}
  /\ config = JsUndefined
  /\ controller = NotCreated
  /\ pc = [r \in Requests |-> "none"]
  /\ req = [r \in Requests |-> NoRequest]
  /\ hdrObjs = EmptyObject
  /\ generated = EmptyObject
  /\ payload = [r \in Requests |-> EmptyObject]
  /\ wire = [r \in Requests |-> << >>]
  /\ transport = [r \in Requests |-> NotSettled]
  /\ errObjs = [r \in Requests |-> EmptyObject]
  /\ processedError = [r \in Requests |-> "none"]
  /\ res = [r \in Requests |-> NewResponse]
  /\ nextArgs = [r \in Requests |-> << >>]
  /\ log = [r \in Requests |-> << >>]

AsyncWrapperCall ==
  /\ utilCall.fn = "asyncWrapper"
  /\ Return("asyncWrapper", asyncWrapper(utilCall.args[1], << >>))

InitWrapper == Init \/ InitAsyncWrapper

NextWrapper ==
  \/ Next
  \/ AsyncWrapperCall

SpecWrapper == InitWrapper /\ [][NextWrapper]_vars

\* createProxyController called with any argument, then routes are set up on
\* what it returned
InitCreate ==
  /\ config \in ConfigArguments
  /\ controller = NotCreated
  /\ pc = [r \in Requests |-> "none"]
  /\ req = [r \in Requests |-> NoRequest]
  /\ hdrObjs = EmptyObject
  /\ generated = EmptyObject
  /\ payload = [r \in Requests |-> EmptyObject]
  /\ wire = [r \in Requests |-> << >>]
  /\ transport = [r \in Requests |-> NotSettled]
  /\ errObjs = [r \in Requests |-> EmptyObject]
  /\ processedError = [r \in Requests |-> "none"]
  /\ res = [r \in Requests |-> NewResponse]
  /\ nextArgs = [r \in Requests |-> << >>]
  /\ log = [r \in Requests |-> << >>]
  /\ utilCall = NoCall

NextCreate ==
  \/ CreateProxyController
  \/ \E r \in Requests : ProxyController(r)

SpecCreate == InitCreate /\ [][NextCreate]_vars

---------------------------------------------------------------------------
(* Reading the state *)

Done(r) == pc[r] = "done"

Events(r, name) == SelectSeq(log[r], LAMBDA e : e.ev = name)

\* the invocations of the error handler the configuration names
ErrorHandlerCalls(r) == Events(r, "errorHandler")

\* every invocation of the built-in defaultErrorHandler, configured or fallback
DefaultHandlerCalls(r) ==
  SelectSeq(log[r], LAMBDA e : \/ e.ev = "fallback"
                               \/ (e.ev = "errorHandler" /\ e.who = "default"))

OutboundFailed(r) == transport[r].settled /\ ~transport[r].ok
OutboundSucceeded(r) == transport[r].settled /\ transport[r].ok

\* the success branch of the engine threw after the outbound call succeeded
ReplyStageThrew(r) ==
  /\ OutboundSucceeded(r)
  /\ \/ \E i \in 1..Len(log[r]) : log[r][i].ev = "handlerSettled" /\ log[r][i].threw
     \/ (req[r].handler = "none" /\ config.responseHeaders = "throws")

HookThrew(r) ==
  \E i \in 1..Len(log[r]) : log[r][i].ev = "hookSettled" /\ log[r][i].outcome.throws

CustomHandlerThrew(r) ==
  \E i \in 1..Len(log[r]) : log[r][i].ev = "errorHandlerSettled" /\ log[r][i].threw

\* a reply of the shape {error: {message, code, details?}}
StructuredErrorReply(reply) ==
  /\ Has(reply.body, "error")
  /\ {"message", "code"} \subseteq DOMAIN reply.body.error
  /\ DOMAIN reply.body.error \subseteq {"message", "code", "details"}

---------------------------------------------------------------------------
(* Claims *)

\* C1: for every inbound request at most one reply is written to the inbound
\* caller, whatever the outbound call's outcome and whatever the response
\* handler, the error hook and the error handler do, including a callback that
\* writes a reply and then throws.
C1_AtMostOneReply ==
  \A r \in Requests : Len(res[r].sent) <= 1

\* C2: when the outbound call fails and the caller-supplied error handler
\* throws, defaultErrorHandler is invoked exactly once, with the same error
\* that was passed to the custom handler, and it writes a reply.
C2_FallbackWithSameError ==
  \A r \in Requests :
    (Done(r) /\ OutboundFailed(r) /\ CustomHandlerThrew(r)) =>
      LET custom   == ErrorHandlerCalls(r)
          defaults == DefaultHandlerCalls(r)
      IN /\ Len(custom) = 1 /\ custom[1].who = "custom"
         /\ Len(defaults) = 1
         /\ defaults[1].ref = custom[1].ref
         /\ defaults[1].error = custom[1].error
         /\ \E i \in 1..Len(res[r].sent) :
              /\ res[r].sent[i].by = "defaultErrorHandler"
              /\ res[r].sent[i].body = ErrorResponse(custom[1].error)

\* C2 witness: a failed call whose hook replaced the error and whose custom
\* handler threw, after the fallback ran
C2_Witness ==
  \E r \in Requests :
    /\ Done(r) /\ OutboundFailed(r) /\ CustomHandlerThrew(r)
    /\ processedError[r] = "hookError"
    /\ Len(DefaultHandlerCalls(r)) = 1

\* C3: with the default error handler, every failure while the middleware
\* handles a request (failed outbound call, header generator, body or query
\* construction, response handler) ends with one structured JSON error reply;
\* none is handed to next() and none leaves the request without a reply.
C3_EveryFailureRepliesJson ==
  \A r \in Requests :
    (/\ Done(r)
     /\ ErrorHandlerOf(config) = "default"
     /\ (config.headers = "throws" \/ OutboundFailed(r) \/ ReplyStageThrew(r))) =>
      /\ nextArgs[r] = << >>
      /\ Len(res[r].sent) = 1
      /\ StructuredErrorReply(res[r].sent[1])

\* C4: if the error hook throws, even after it changed fields of the error it
\* was given, the error handler is still invoked and the error it receives
\* (and the reply the default handler renders) has the content the error had
\* before the hook ran.
C4_HookThrowKeepsPreHookContent ==
  \A r \in Requests :
    HookThrew(r) =>
      LET before == Events(r, "errorHandlerHook")[1].error
          calls  == ErrorHandlerCalls(r)
      IN /\ Len(calls) = 1
         /\ calls[1].error = before
         /\ (ErrorHandlerOf(config) = "default" =>
               res[r].sent[Len(res[r].sent)].body = ErrorResponse(before))

\* the invocations of the hook
HookCalls(r) == Events(r, "errorHandlerHook")

\* the hook is invoked at most once and only when configured, and it has
\* settled before the error handler is first invoked
HookBeforeHandler(r) ==
  /\ Len(HookCalls(r)) <= 1
  /\ (~ErrorHandlerHookOf(config) => Len(HookCalls(r)) = 0)
  /\ \A j \in 1..Len(log[r]) :
       (log[r][j].ev \in {"errorHandler", "fallback"} /\ ErrorHandlerHookOf(config)) =>
         \E i \in 1..(j - 1), k \in 1..(j - 1) :
           /\ i < k
           /\ log[r][i].ev = "errorHandlerHook"
           /\ log[r][k].ev = "hookSettled"

\* C5 as stated: the hook and the error handler are invoked only after the
\* outbound call itself failed and never after it succeeded; the hook is
\* invoked at most once and has settled before the error handler is first
\* invoked; the configured error handler is invoked exactly once per failed
\* call.
C5_ErrorPathOnlyAfterFailedCall ==
  \A r \in Requests :
    /\ (Len(HookCalls(r)) + Len(ErrorHandlerCalls(r)) > 0 => OutboundFailed(r))
    /\ HookBeforeHandler(r)
    /\ Len(ErrorHandlerCalls(r)) <= 1
    /\ (Done(r) /\ OutboundFailed(r) => Len(ErrorHandlerCalls(r)) = 1)

\* C5 amended: the hook and the error handler are invoked only after the
\* outbound call failed or after the engine's success branch (response
\* handler, responseHeaders) threw following a successful call; the hook is
\* invoked at most once and has settled before the error handler is first
\* invoked; the configured error handler is invoked exactly once per entry
\* into the error path.
C5_ErrorPathOnlyAfterFailureOrThrow ==
  \A r \in Requests :
    /\ (Len(HookCalls(r)) + Len(ErrorHandlerCalls(r)) > 0 =>
          (OutboundFailed(r) \/ ReplyStageThrew(r)))
    /\ HookBeforeHandler(r)
    /\ Len(ErrorHandlerCalls(r)) <= 1
    /\ (Done(r) /\ (OutboundFailed(r) \/ ReplyStageThrew(r)) =>
          Len(ErrorHandlerCalls(r)) = 1)

\* C5 witness: a failed call whose hook settled and whose handler then ran
C5_Witness ==
  \E r \in Requests :
    /\ Done(r) /\ OutboundFailed(r)
    /\ Len(HookCalls(r)) = 1
    /\ Len(ErrorHandlerCalls(r)) = 1
    /\ log[r][Len(log[r])].ev = "errorHandlerSettled"

GeneratorOutput(r) ==
  CASE config.headers = "fresh"  -> OwnHeaders(r)
    [] config.headers = "shared" -> SharedHeaders
    [] config.headers = "reuse"  -> Assign(SharedHeaders, OwnHeaders(r))

\* what the engine adds for request r: the JSON default or the multipart headers
Enrichment(r) ==
  IF req[r].method \in {"POST", "PUT", "PATCH", "DELETE"}
  THEN IF req[r].multipart
       THEN FormDataHeaders
       ELSE ("Content-Type" :> "application/json")
  ELSE EmptyObject

\* C7: for every interleaving of concurrent requests through one controller,
\* the outbound headers of each request are that request's own generator
\* output plus that request's own enrichment, and the object the generator
\* returned is never modified, also when it is the same instance for every
\* request.
C7_HeadersNeverCrossRequests ==
  /\ \A r \in Requests :
       \A i \in 1..Len(wire[r]) :
         wire[r][i].headers = Assign(GeneratorOutput(r), Enrichment(r))
  /\ \A id \in DOMAIN generated : hdrObjs[id] = generated[id]

\* C7 witness: one shared generator object, a JSON POST dispatched first and a
\* GET dispatched while the POST is still in flight
C7_Witness ==
  /\ config.headers = "shared"
  /\ \E r1 \in Requests, r2 \in Requests :
       /\ r1 # r2
       /\ pc[r1] = "axios" /\ pc[r2] = "axios"
       /\ req[r1].method = "POST" /\ ~req[r1].multipart
       /\ req[r2].method = "GET"
       /\ Len(wire[r1]) = 1 /\ Len(wire[r2]) = 1

\* C8: each invocation of the middleware performs at most one outbound call,
\* whatever its outcome: a failed or timed-out call is never retried and
\* neither the hook stage nor the error handler stage issues a second call.
C8_AtMostOneOutboundCall ==
  \A r \in Requests : Len(wire[r]) <= 1

\* C8 witness: a timed-out call went through the hook and the custom handler
\* to the end
C8_Witness ==
  \E r \in Requests :
    /\ Done(r) /\ OutboundFailed(r)
    /\ transport[r].error.message = "timeout of 30000ms exceeded"
    /\ Len(HookCalls(r)) = 1
    /\ CustomHandlerThrew(r)
    /\ Len(wire[r]) = 1

\* the error axiosProxyRequest rejected with
Rejection(r) == Events(r, "axiosRejected")[1].error

RespondedWithError(r) == OutboundFailed(r) /\ Has(transport[r].error, "response")

\* C9 as stated: on a non-2xx answer axiosProxyRequest rejects with status =
\* remote status, message = the remote body's message field if present and
\* otherwise the transport's message, data = remote body, headers = remote
\* headers, and no code.
C9_RemoteErrorMessageIfPresent ==
  \A r \in Requests :
    RespondedWithError(r) =>
      LET remote == transport[r].error.response
          e == Rejection(r)
      IN /\ e.status = remote.status
         /\ e.message = IF remote.data.type = "object" /\ Has(remote.data.fields, "message")
                        THEN remote.data.fields.message
                        ELSE transport[r].error.message
         /\ e.data = remote.data
         /\ e.headers = remote.headers
         /\ ~Has(e, "code")

\* C9 amended: as C9, with the message taken from the remote body's message
\* field only if that field is present and not empty (truthy), and from the
\* transport's message otherwise.
C9_RemoteErrorMessageIfTruthy ==
  \A r \in Requests :
    RespondedWithError(r) =>
      LET remote == transport[r].error.response
          e == Rejection(r)
      IN /\ e.status = remote.status
         /\ e.message = IF /\ remote.data.type = "object"
                           /\ Has(remote.data.fields, "message")
                           /\ remote.data.fields.message # ""
                        THEN remote.data.fields.message
                        ELSE transport[r].error.message
         /\ e.data = remote.data
         /\ e.headers = remote.headers
         /\ ~Has(e, "code")

\* C9 witness: a 404 whose body carries the message "User not found"
C9_Witness ==
  \E r \in Requests :
    /\ RespondedWithError(r)
    /\ transport[r].error.response.status = 404
    /\ transport[r].error.response.data = JsObject([message |-> "User not found"])
    /\ Rejection(r).message = "User not found"

\* C10: classification is total and first match wins: a failure carrying a
\* remote response is never classified as a network or setup error; a call
\* dispatched without a response yields 503, NETWORK_ERROR and the message
\* 'Network error: No response received'; a call that could not be dispatched
\* yields 500, REQUEST_ERROR and a message embedding the underlying one.
C10_ClassificationFirstMatch ==
  \A r \in Requests :
    OutboundFailed(r) =>
      LET cause == transport[r].error
          e == Rejection(r)
      IN /\ Has(cause, "response") =>
              /\ e.status = cause.response.status
              /\ ~Has(e, "code")
              /\ Has(e, "data") /\ Has(e, "headers")
         /\ (~Has(cause, "response") /\ Has(cause, "request")) =>
              e = [message |-> "Network error: No response received",
                   status |-> 503, code |-> "NETWORK_ERROR"]
         /\ (~Has(cause, "response") /\ ~Has(cause, "request")) =>
              e = [message |-> "Request setup error: " \o cause.message,
                   status |-> 500, code |-> "REQUEST_ERROR"]

\* C10 witness: each of the three classes was produced, here the one where the
\* failure carries both a request and a response
C10_Witness ==
  \E r \in Requests :
    /\ OutboundFailed(r)
    /\ Has(transport[r].error, "response") /\ Has(transport[r].error, "request")
    /\ Rejection(r).status = 500
    /\ ~Has(Rejection(r), "code")

\* the error defaultErrorHandler was called with and the reply it wrote
HandledError(r) == errObjs[r][CaughtId]
DefaultReply(r) == res[r].sent[1]

\* a field that is set to something other than null or undefined
Present(obj, field) == Has(obj, field) /\ obj[field] # JsNull

\* C11 as stated: defaultErrorHandler replies with error.status, or 500 when
\* the error has none, and the body {error: {message, code, details}} with
\* message = error.message ('Internal server error' when empty), code =
\* error.code ('UNKNOWN_ERROR' when absent), and details included exactly when
\* error.data is present, then equal to error.data.
C11_DetailsWhenDataPresent ==
  \A r \in Requests :
    (Done(r) /\ CaughtId \in DOMAIN errObjs[r] /\ req[r] = NoRequest) =>
      LET e == HandledError(r)
          reply == DefaultReply(r)
      IN /\ Len(res[r].sent) = 1
         /\ DOMAIN reply.body = {"error"}
         /\ {"message", "code"} \subseteq DOMAIN reply.body.error
         /\ DOMAIN reply.body.error \subseteq {"message", "code", "details"}
         /\ reply.status = (IF Has(e, "status") THEN e.status ELSE 500)
         /\ reply.body.error.message =
              (IF e.message # "" THEN e.message ELSE "Internal server error")
         /\ reply.body.error.code =
              (IF Has(e, "code") THEN e.code ELSE "UNKNOWN_ERROR")
         /\ Has(reply.body.error, "details") <=> Present(e, "data")
         /\ Has(reply.body.error, "details") => reply.body.error.details = e.data

\* C11 amended: defaultErrorHandler replies with error.status, or 500 when the
\* status is absent or 0, and the body {error: {message, code, details}} with
\* message = error.message ('Internal server error' when empty), code =
\* error.code ('UNKNOWN_ERROR' when absent or empty), and details included
\* exactly when error.data is truthy (not absent, null, false, 0 or ''), then
\* equal to error.data.
C11_DetailsWhenDataTruthy ==
  \A r \in Requests :
    (Done(r) /\ CaughtId \in DOMAIN errObjs[r] /\ req[r] = NoRequest) =>
      LET e == HandledError(r)
          reply == DefaultReply(r)
      IN /\ Len(res[r].sent) = 1
         /\ DOMAIN reply.body = {"error"}
         /\ {"message", "code"} \subseteq DOMAIN reply.body.error
         /\ DOMAIN reply.body.error \subseteq {"message", "code", "details"}
         /\ reply.status = (IF Has(e, "status") /\ e.status # 0 THEN e.status ELSE 500)
         /\ reply.body.error.message =
              (IF e.message # "" THEN e.message ELSE "Internal server error")
         /\ reply.body.error.code =
              (IF Has(e, "code") /\ e.code # "" THEN e.code ELSE "UNKNOWN_ERROR")
         /\ Has(reply.body.error, "details") <=>
              (Has(e, "data") /\ e.data \notin {JsNull, JsBool(FALSE), JsNum(0), JsStr("")})
         /\ Has(reply.body.error, "details") => reply.body.error.details = e.data

\* C11 witness: an error with status, an empty message, no code and an object
\* as data was rendered
C11_Witness ==
  \E r \in Requests :
    /\ Done(r) /\ req[r] = NoRequest
    /\ CaughtId \in DOMAIN errObjs[r]
    /\ HandledError(r).message = ""
    /\ ~Has(HandledError(r), "code")
    /\ Has(HandledError(r), "status") /\ HandledError(r).status = 429
    /\ Has(HandledError(r), "data") /\ HandledError(r).data = JsObject([field |-> "name"])
    /\ DefaultReply(r) = [status |-> 429, headers |-> EmptyObject, by |-> "defaultErrorHandler",
                          body |-> [error |-> [message |-> "Internal server error",
                                               code |-> "UNKNOWN_ERROR",
                                               details |-> JsObject([field |-> "name"])]]]

\* the names of a header map that spell content-length in any letter case
ContentLengthNames == {"content-length", "Content-Length", "CONTENT-LENGTH"}

\* C12: defaultErrorHandler sets on the reply every header of error.headers
\* except a content-length header, whatever the letter case of its name; a
\* content-length taken from the error is never set on the reply.
C12_ContentLengthNeverForwarded ==
  \A r \in Requests :
    (Done(r) /\ CaughtId \in DOMAIN errObjs[r] /\ req[r] = NoRequest) =>
      LET e == HandledError(r)
          given == IF Has(e, "headers") THEN e.headers ELSE EmptyObject
      IN /\ DOMAIN res[r].headers = DOMAIN given \ ContentLengthNames
         /\ \A h \in DOMAIN res[r].headers : res[r].headers[h] = given[h]
         /\ \A i \in 1..Len(res[r].sent) :
              DOMAIN res[r].sent[i].headers \cap ContentLengthNames = {}

\* C12 witness: an error carrying Retry-After and a capitalised Content-Length
\* was rendered and Retry-After alone is on the reply
C12_Witness ==
  \E r \in Requests :
    /\ Done(r) /\ req[r] = NoRequest
    /\ CaughtId \in DOMAIN errObjs[r]
    /\ Has(HandledError(r), "headers")
    /\ "Content-Length" \in DOMAIN HandledError(r).headers
    /\ DefaultReply(r).headers = ("Retry-After" :> "60")

\* a middleware was obtained from the controller
MiddlewareObtained == \E r \in Requests : pc[r] # "none"

\* the config is missing, its baseURL is missing or empty, or its headers is
\* not a function
RequiredPartMissing ==
  \/ config \in {JsUndefined, JsNull}
  \/ ~Has(config.fields, "baseURL")
  \/ config.fields.baseURL = JsStr("")
  \/ ~Has(config.fields, "headers")
  \/ config.fields.headers # JsFunction

SuppliedNotCallable(name) ==
  /\ config \notin {JsUndefined, JsNull}
  /\ Has(config.fields, name)
  /\ config.fields[name] \notin {JsFunction, JsNull, JsUndefined}

\* C14: createProxyController throws synchronously whenever errorHandler or
\* errorHandlerHook is supplied with a value that is not callable, for every
\* such value; a controller is returned only if each supplied handler is a
\* function.
C14_NonCallableHandlerThrows ==
  (SuppliedNotCallable("errorHandler") \/ SuppliedNotCallable("errorHandlerHook")) =>
    /\ controller.state \in {"pending", "threw"}
    /\ ~MiddlewareObtained

\* no path template was given: omitted, undefined or the empty string
NoTemplate(r) == req[r].proxyPath \in {JsUndefined, PathTemplate(<< >>)}

ContentTypeNames(headers) ==
  {k \in DOMAIN headers : ToLowerCase(k) = "content-type"}

\* what config.headers returned for request r when the middleware called it
Generated(r) == generated[GenId(r)]

\* C19: the outbound request carries a body only if the inbound method is one
\* of POST, PUT, PATCH, DELETE; for every other method it has no body and its
\* headers are exactly a copy of the header generator's output.
C19_BodyOnlyForStateChangingMethods ==
  \A r \in Requests :
    \A i \in 1..Len(wire[r]) :
      /\ Has(wire[r][i], "data") => req[r].method \in {"POST", "PUT", "PATCH", "DELETE"}
      /\ req[r].method \notin {"POST", "PUT", "PATCH", "DELETE"} =>
           /\ ~Has(wire[r][i], "data")
           /\ ~Has(payload[r], "data")
           /\ wire[r][i].headers = Generated(r)
           /\ payload[r].headers # GenId(r)

\* C19 witness: an OPTIONS request that came with a multipart body went out
\* without one, under the generator's headers
C19_Witness ==
  \E r \in Requests :
    /\ Len(wire[r]) = 1
    /\ req[r].method = "OPTIONS" /\ req[r].multipart
    /\ req[r].body = JsObject([name |-> "John"])
    /\ config.headers = "content-type"
    /\ ~Has(wire[r][1], "data")
    /\ wire[r][1].headers = Assign(OwnHeaders(r), "content-type" :> "text/xml")

\* the JSON text of the inbound bodies
JsonTextOf(body) ==
  CASE body = JsObject(EmptyObject) -> "{}"
    [] body = JsObject([name |-> "John"]) -> "{\"name\":\"John\"}"

\* C20: for a state-changing request that is not multipart the outbound body
\* is the JSON serialization of the inbound body, and Content-Type:
\* application/json is added if and only if the header generator's output has
\* no Content-Type header; a Content-Type the generator supplies, under any
\* letter case of the name, stays the only content-type header.
C20_JsonContentTypeOnlyIfAbsent ==
  \A r \in Requests :
    \A i \in 1..Len(wire[r]) :
      (req[r].method \in {"POST", "PUT", "PATCH", "DELETE"} /\ ~req[r].multipart) =>
        LET sent == wire[r][i]
            own == Generated(r)
        IN /\ IF req[r].body = JsUndefined THEN ~Has(sent, "data")
              ELSE Has(sent, "data") /\ sent.data = JsStr(JsonTextOf(req[r].body))
           /\ \A k \in DOMAIN own : Has(sent.headers, k) /\ sent.headers[k] = own[k]
           /\ IF ContentTypeNames(own) = {}
              THEN /\ DOMAIN sent.headers = DOMAIN own \cup {"Content-Type"}
                   /\ sent.headers["Content-Type"] = "application/json"
              ELSE /\ DOMAIN sent.headers = DOMAIN own
                   /\ ContentTypeNames(sent.headers) = ContentTypeNames(own)

\* the remote response of a call that succeeded
RemoteResponse(r) == transport[r].response

\* the reply that mirrors the remote response: its status, the headers
\* config.responseHeaders returns for it, when configured, and its body
MirroredReply(r) ==
  [status |-> RemoteResponse(r).status,
   headers |-> IF config.responseHeaders = "fn"
               THEN "x-forwarded-header" :> RemoteResponse(r).headers["x-ratelimit-remaining"]
               ELSE EmptyObject,
   body |-> RemoteResponse(r).data]

ReplyContent(reply) ==
  [status |-> reply.status, headers |-> reply.headers, body |-> reply.body]

HandlerReturned(r) ==
  \E i \in 1..Len(log[r]) : log[r][i].ev = "handlerSettled" /\ ~log[r][i].threw

C18_TrueHandlerSameAsNoHandler ==
  \A r \in Requests :
    (/\ Done(r) /\ OutboundSucceeded(r)
     /\ req[r].handler = "true"
     /\ config.responseHeaders # "throws") =>
      /\ Len(res[r].sent) = 1
      /\ ReplyContent(res[r].sent[1]) = MirroredReply(r)

\* the uploaded files of a request, whatever the upload shape: req.file, the
\* array req.files, or the arrays of the object req.files in key order
UploadedFiles(request) ==
  LET RECURSIVE groups(_, _)
      groups(entries, i) ==
        IF i > Len(entries) THEN << >>
        ELSE entries[i][2].items \o groups(entries, i + 1)
  IN IF Has(request, "files")
     THEN IF request.files.type = "array" THEN request.files.items
          ELSE groups(request.files.entries, 1)
     ELSE IF Has(request, "file") THEN << request.file >>
     ELSE << >>

\* the keys of the inbound body
BodyKeys(request) ==
  IF request.body.type = "object"
  THEN {ObjectEntries(request.body)[i][1] : i \in 1..Len(ObjectEntries(request.body))}
  ELSE {}

\* a part of a multipart payload that carries the file
IsPartOf(part, file) ==
  /\ DOMAIN part = {"name", "value", "contentType", "filename"}
  /\ part.name = file.fieldname
  /\ part.filename = file.originalname
  /\ part.contentType = file.mimetype
  /\ part.value = file.buffer

\* C21: for a state-changing multipart request the outbound body is the
\* multipart payload built from the inbound fields and files, and the only
\* content-type header of the outbound request, under any letter case, is the
\* multipart one with that payload's boundary: a Content-Type supplied by the
\* header generator does not remain, its other headers do.
C21_MultipartContentTypeReplacesGenerated ==
  \A r \in Requests :
    \A i \in 1..Len(wire[r]) :
      (req[r].method \in {"POST", "PUT", "PATCH", "DELETE"} /\ req[r].multipart) =>
        LET sent == wire[r][i]
            own == Generated(r)
        IN /\ Has(sent, "data")
           /\ sent.data.type = "formdata"
           /\ \A j \in 1..Len(sent.data.entries) :
                LET part == sent.data.entries[j]
                IN \/ DOMAIN part = {"name", "value"} /\ part.name \in BodyKeys(req[r])
                   \/ \E k \in 1..Len(UploadedFiles(req[r])) :
                        IsPartOf(part, UploadedFiles(req[r])[k])
           /\ \E name \in DOMAIN sent.headers :
                /\ ContentTypeNames(sent.headers) = {name}
                /\ sent.headers[name] =
                     "multipart/form-data; boundary=" \o sent.data.boundary
           /\ \A k \in DOMAIN own \ ContentTypeNames(own) :
                Has(sent.headers, k) /\ sent.headers[k] = own[k]

\* C22: the timeout of the outbound call equals the configured timeout
\* whenever one is configured, for every numeric value, and 30000 ms when none
\* is configured.
C22_TimeoutConfiguredOrDefault ==
  \A r \in Requests :
    \A i \in 1..Len(wire[r]) :
      /\ Has(wire[r][i], "timeout")
      /\ wire[r][i].timeout = IF Has(config, "timeout") THEN config.timeout ELSE 30000

\* the direct call of fn has returned
CallReturned(fn) == utilCall.fn = fn /\ utilCall.returned

\* str contains '//'
HasDoubleSlash(str) ==
  \E i \in 1..(Len(str) - 1) : str[i] = "/" /\ str[i + 1] = "/"

\* where the '://' of an absolute URL starts: after a scheme that holds no
\* '/', '?' or ':'; 0 when str is not absolute
SchemeEnd(str) ==
  LET marks == { i \in 2..(Len(str) - 2) :
                   /\ SubSeq(str, i, i + 2) = <<":", "/", "/">>
                   /\ \A j \in 1..(i - 1) : str[j] \notin {"/", "?", ":"} }
  IN IF marks = {} THEN 0 ELSE CHOOSE i \in marks : TRUE

\* str without the scheme portion of an absolute URL
OutsideScheme(str) ==
  IF SchemeEnd(str) = 0 THEN str
  ELSE SubSeq(str, 1, SchemeEnd(str)) \o SubSeq(str, SchemeEnd(str) + 3, Len(str))

\* the last part is a query fragment
EndsInQuery(parts) ==
  Len(parts) > 0 /\ parts[Len(parts)] # << >> /\ Head(parts[Len(parts)]) = "?"

\* C23: for every non-empty sequence of parts whose last part is not a query
\* fragment, the result of urlJoin contains no '//' outside the scheme portion
\* ('://') of an absolute first part.
C23_NoDoubleSlashOutsideScheme ==
  (/\ CallReturned("urlJoin")
   /\ Len(utilCall.args[1]) > 0
   /\ ~EndsInQuery(utilCall.args[1])) =>
    ~HasDoubleSlash(OutsideScheme(utilCall.result))

\* the parts of a call that are not the empty string
NonEmptyParts(parts) == SelectSeq(parts, LAMBDA part : Len(part) > 0)

\* the slash-join of parts: the first one without its trailing slashes, every
\* later one without its leading and trailing slashes, one '/' between two
SlashJoin(parts) ==
  LET RECURSIVE upTo(_)
      upTo(n) ==
        IF n = 0 THEN << >>
        ELSE IF n = 1 THEN StripTrailingSlashes(parts[1])
        ELSE upTo(n - 1) \o <<"/">> \o StripTrailingSlashes(StripLeadingSlashes(parts[n]))
  IN upTo(Len(parts))

\* C24: if the last non-empty part passed to urlJoin begins with '?', the
\* result is the slash-join of the preceding non-empty parts immediately
\* followed by that part, which is neither joined with a '/' of its own nor
\* prefixed twice; with no non-empty part at all the result is ''.
C24_QueryFragmentAppended ==
  CallReturned("urlJoin") =>
    LET given == NonEmptyParts(utilCall.args[1])
        n == Len(given)
    IN /\ n = 0 => utilCall.result = << >>
       /\ (n > 0 /\ Head(given[n]) = "?") =>
            utilCall.result = SlashJoin(SubSeq(given, 1, n - 1)) \o given[n]

\* C24 witness: urlJoin('http://h/', '/api/', '?p=1') returned 'http://h/api?p=1'
C24_Witness ==
  /\ CallReturned("urlJoin")
  /\ utilCall.args[1] = << ExampleBaseURL \o <<"/">>, <<"/", "a", "p", "i", "/">>,
                           <<"?", "p", "=", "1">> >>
  /\ utilCall.result = ExampleBaseURL \o <<"/", "a", "p", "i", "?", "p", "=", "1">>

\* the characters a placeholder name is made of
NameChars ==
  { "a", "b", "c", "d", "e", "f", "g", "h", "i", "j", "k", "l", "m", "n", "o", "p", "q",
    "r", "s", "t", "u", "v", "w", "x", "y", "z", "0", "1", "2", "3", "4", "5", "6", "7",
    "8", "9", "_" }

\* the name that starts str: its longest prefix of name characters
NameAt(str) ==
  LET RECURSIVE run(_)
      run(n) == IF n < Len(str) /\ str[n + 1] \in NameChars THEN run(n + 1) ELSE n
  IN SubSeq(str, 1, run(0))

\* the template with each placeholder (':' and the name after it) whose name is
\* a key of the variables replaced by that variable's value, everything else
\* left as it is
PlaceholdersReplaced(template, urlVariables) ==
  LET keys == { urlVariables[i][1] : i \in 1..Len(urlVariables) }
      valueOf(name) ==
        urlVariables[CHOOSE i \in 1..Len(urlVariables) : urlVariables[i][1] = name][2]
      RECURSIVE scan(_)
      scan(t) ==
        IF t = << >> THEN << >>
        ELSE IF Head(t) = ":" /\ NameAt(Tail(t)) \in keys
        THEN valueOf(NameAt(Tail(t))) \o scan(SubSeq(t, Len(NameAt(Tail(t))) + 2, Len(t)))
        ELSE << Head(t) >> \o scan(Tail(t))
  IN scan(template)

\* C25: replaceUrlTemplate(template, variables) returns the template with
\* every occurrence of each placeholder :key replaced by the string form of
\* variables[key]; a placeholder whose name is not a key is left intact and a
\* key that does not occur as a placeholder has no effect.
C25_PlaceholdersReplacedByValues ==
  CallReturned("replaceUrlTemplate") =>
    utilCall.result = PlaceholdersReplaced(utilCall.args[1], utilCall.args[2])

\* str cut at every occurrence of the character sep
Split(str, sep) ==
  LET RECURSIVE split(_, _)
      split(t, current) ==
        IF t = << >> THEN << current >>
        ELSE IF Head(t) = sep THEN << current >> \o split(Tail(t), << >>)
        ELSE split(Tail(t), Append(current, Head(t)))
  IN split(str, << >>)

\* the character a percent escape of a query string stands for
Unescaped(hex) ==
  CASE hex = <<"2", "0">> -> " "
    [] hex = <<"2", "4">> -> "$"
    [] hex = <<"2", "5">> -> "%"
    [] hex = <<"2", "6">> -> "&"
    [] hex = <<"2", "B">> -> "+"
    [] hex = <<"2", "F">> -> "/"
    [] hex = <<"3", "A">> -> ":"
    [] hex = <<"3", "D">> -> "="
    [] hex = <<"3", "F">> -> "?"

\* a key or value of a query string decoded as a receiver decodes it: '+' is a
\* space and %XX the character with that code
QueryDecoded(str) ==
  LET RECURSIVE decode(_)
      decode(t) ==
        IF t = << >> THEN << >>
        ELSE IF Head(t) = "+" THEN << " " >> \o decode(Tail(t))
        ELSE IF Head(t) = "%" THEN << Unescaped(SubSeq(t, 2, 3)) >> \o decode(SubSeq(t, 4, Len(t)))
        ELSE << Head(t) >> \o decode(Tail(t))
  IN decode(str)

\* the <<key, value>> pairs a query object is to be sent as: per key, in key
\* order, one pair per element of an array, one for a string, none for null
\* and undefined
PairsOf(entries) ==
  LET RECURSIVE upTo(_)
      upTo(n) ==
        IF n = 0 THEN << >>
        ELSE upTo(n - 1) \o
             (IF entries[n][2].kind = "array"
              THEN [j \in 1..Len(entries[n][2].items) |->
                      << entries[n][1], entries[n][2].items[j] >>]
              ELSE IF entries[n][2].kind \in {"null", "undefined"} THEN << >>
              ELSE << << entries[n][1], entries[n][2].chars >> >>)
  IN upTo(Len(entries))

\* C26: buildQueryString returns '' for an empty or absent map and whenever no
\* pair is emitted, and otherwise '?' followed by the '&'-joined encoded
\* key=value pairs in key order: one pair per element of a sequence value, one
\* for any other present value, none for a null or absent value.  Encoded: cut
\* at '&' and '=' and decoded, the string gives back exactly those pairs.
C26_QueryStringOfPairs ==
  CallReturned("buildQueryString") =>
    LET query == utilCall.args[1]
        pairs == IF query.type = "undefined" THEN << >> ELSE PairsOf(query.entries)
        result == utilCall.result
    IN IF pairs = << >> THEN result = << >>
       ELSE /\ result # << >> /\ Head(result) = "?"
            /\ LET sent == Split(Tail(result), "&")
               IN /\ Len(sent) = Len(pairs)
                  /\ \A i \in 1..Len(sent) :
                       /\ Len(Split(sent[i], "=")) = 2
                       /\ QueryDecoded(Split(sent[i], "=")[1]) = pairs[i][1]
                       /\ QueryDecoded(Split(sent[i], "=")[2]) = pairs[i][2]

\* C26 witness: buildQueryString({'a b': ['x', 'y'], p: 'a&b=c'}) returned
\* '?a+b=x&a+b=y&p=a%26b%3Dc'
C26_Witness ==
  /\ CallReturned("buildQueryString")
  /\ utilCall.args[1] =
       JsEntries(<< << <<"a", " ", "b">>, QueryArray(<< <<"x">>, <<"y">> >>) >>,
                    << <<"p">>, QueryString(<<"a", "&", "b", "=", "c">>) >> >>)
  /\ utilCall.result =
       <<"?", "a", "+", "b", "=", "x", "&", "a", "+", "b", "=", "y", "&",
         "p", "=", "a", "%", "2", "6", "b", "%", "3", "D", "c">>

\* the values of the multipart fields called key, in the order of the payload
FieldValues(formData, key) ==
  LET named == SelectSeq(formData.entries,
                         LAMBDA part : DOMAIN part = {"name", "value"} /\ part.name = key)
  IN [j \in 1..Len(named) |-> named[j].value]

\* the texts of the -F flags of a curl command that name key, in order
FlagTexts(command, key) ==
  LET named == SelectSeq(command,
                         LAMBDA piece : piece.flag = "-F" /\ piece.name = key)
  IN [j \in 1..Len(named) |-> named[j].text]

\* the curl commands logged for request r
LoggedCommands(r) ==
  LET entries == Events(r, "console.log")
  IN [j \in 1..Len(entries) |-> entries[j].command]

\* the array-valued fields of the inbound body of r, as <<key, array>> pairs
ArrayFields(r) ==
  IF req[r].body.type = "object"
  THEN SelectSeq(ObjectEntries(req[r].body), LAMBDA entry : entry[2].type = "array")
  ELSE << >>

\* C27: an array-valued inbound body field is forwarded as one form entry per
\* element, in element order: one multipart field per element in the payload
\* of createFormDataPayload and one -F 'key=element' flag per element in the
\* command of generateCurlCommand; an empty array produces no entry for its key.
C27_ArrayFieldOneEntryPerElement ==
  \A r \in Requests :
    (/\ Len(wire[r]) > 0
     /\ req[r].method \in {"POST", "PUT", "PATCH", "DELETE"}
     /\ req[r].multipart) =>
      \A n \in 1..Len(ArrayFields(r)) :
        LET key == ArrayFields(r)[n][1]
            items == ArrayFields(r)[n][2].items
        IN /\ \A i \in 1..Len(wire[r]) :
                FieldValues(wire[r][i].data, key) =
                  [j \in 1..Len(items) |-> JsToString(items[j])]
           /\ \A c \in 1..Len(LoggedCommands(r)) :
                FlagTexts(LoggedCommands(r)[c], key) =
                  [j \in 1..Len(items) |->
                     "'" \o key \o "=" \o JsToString(items[j]) \o "'"]

\* the parts of a multipart payload that carry a file
FileParts(formData) ==
  SelectSeq(formData.entries, LAMBDA part : Has(part, "filename"))

\* C28: createFormDataPayload includes every uploaded file of the inbound
\* request in the multipart payload, with its field name, original filename,
\* MIME type and content, for a single file (req.file), an array of files
\* (req.files as array) and files grouped by field (req.files as object).
C28_EveryUploadedFileInPayload ==
  \A r \in Requests :
    \A i \in 1..Len(wire[r]) :
      (req[r].method \in {"POST", "PUT", "PATCH", "DELETE"} /\ req[r].multipart) =>
        /\ Has(wire[r][i], "data")
        /\ Len(FileParts(wire[r][i].data)) = Len(UploadedFiles(req[r]))
        /\ \A k \in 1..Len(UploadedFiles(req[r])) :
             \E j \in 1..Len(wire[r][i].data.entries) :
               IsPartOf(wire[r][i].data.entries[j], UploadedFiles(req[r])[k])

\* the failure of request r was handled: an error handler was invoked for it
FailureHandled(r) == ErrorHandlerCalls(r) # << >>

Segments(path) == SelectSeq(Split(path, "/"), LAMBDA segment : segment # << >>)

\* where the query string of a URL starts: the position of its first '?', one
\* past its end without one
QueryStart(url) ==
  IF \E i \in 1..Len(url) : url[i] = "?"
  THEN CHOOSE i \in 1..Len(url) : url[i] = "?" /\ \A j \in 1..(i - 1) : url[j] # "?"
  ELSE Len(url) + 1

\* the path of an outbound URL, after the base URL and before the query string
PathOf(url) == SubSeq(url, Len(ExampleBaseURL) + 1, QueryStart(url) - 1)

\* C30: in explicit-template mode, for every value of the inbound path
\* parameters, the outbound URL has the path segments of the template, each
\* :param segment replaced by exactly one segment, and its query string is the
\* one built from the inbound query parameters: a parameter value neither
\* adds nor removes a path segment nor introduces a query string.
C30_ParameterValueStaysOneSegment ==
  \A r \in Requests :
    \A i \in 1..Len(wire[r]) :
      ProxyPathGiven(req[r].proxyPath) =>
        LET url == wire[r][i].url
            template == Segments(req[r].proxyPath.chars)
            sent == Segments(PathOf(url))
        IN /\ SubSeq(url, QueryStart(url), Len(url)) =
                buildQueryString(JsEntries(req[r].query))
           /\ Len(sent) = Len(template)
           /\ \A k \in 1..Len(template) :
                (k <= Len(sent) /\ Head(template[k]) # ":") => sent[k] = template[k]

====
